---------------------------- MODULE Spec2Model ----------------------------
(***************************************************************************)
(* A model of boxtree's expansion wranglers:                               *)
(*   - FMMLibExpansionWrangler (boxtree/pyfmmlib_integration.py): the      *)
(*     constructor, the expansion storage helpers and the FMM passes,      *)
(*     with pyfmmlib replaced by a unit kernel on integer coefficients     *)
(*     whose status codes are chosen nondeterministically;                 *)
(*   - ConstantOneExpansionWrangler (test/test_fmm.py): the reference      *)
(*     wrangler of the completeness tests.                                 *)
(* Python lists and numpy vectors are TLA+ sequences; index i of the       *)
(* source is element i+1 of the sequence (see At).                         *)
(***************************************************************************)
EXTENDS Integers, Sequences, FiniteSets, TLC

VARIABLES
    tree,        \* the box tree handed to the wrangler (read-only input)
    trav,        \* the traversal: box lists and CSR interaction lists (input)
    wrangler,    \* the wrangler object (its fields), blank before __init__ has run
    pc,          \* the driver's position: the last pass or call that ran
    mpole_exps,  \* multipole expansion buffer threaded between the passes
    local_exps,  \* local expansion buffer threaded between the passes
    potentials,  \* the driver's running output accumulator
    trace,       \* events of the last pass or call: kernel calls, reads, writes
    ret,         \* value returned (or error raised) by the last pass or call
    workers      \* per-box workers of one level run concurrently (empty: none)

vars == <<tree, trav, wrangler, pc, mpole_exps, local_exps, potentials, trace, ret,
         workers>>

\* ------------------------------------------------------------------------
\* Bounds of the model
\* ------------------------------------------------------------------------

\* deepest tree has MaxLevels levels (0 .. MaxLevels-1)
MaxLevels == 5
\* levels 0 .. MaxFull of a tree may be fully populated
MaxFull == 2
\* particles a leaf box holds: 0 .. MaxPerBox
MaxPerBox == 1
\* expansion orders (nterms) are drawn from 0 .. MaxOrder
MaxOrder == 2
\* vectors of the reorder round trip have 1 .. MaxParticles entries
MaxParticles == 3
\* the kernel call of a pass that the environment may make fail is one of
\* the first MaxFailCall
MaxFailCall == 3

\* ------------------------------------------------------------------------
\* Python list semantics
\* ------------------------------------------------------------------------

Min(a, b) == IF a < b THEN a ELSE b

Max(a, b) == IF a > b THEN a ELSE b

\* a[i] for 0 <= i < len(a)
At(a, i) == a[i + 1]

\* a[start:stop] with Python's clamping and negative-index rules
PySlice(a, start, stop) ==
    LET n  == Len(a)
        lo == IF start < 0 THEN Max(start + n, 0) ELSE Min(start, n)
        hi == IF stop < 0 THEN Max(stop + n, 0) ELSE Min(stop, n)
    IN  IF lo < hi THEN SubSeq(a, lo + 1, hi) ELSE <<>>

\* whether a[i] is a valid index expression (negative indices wrap once)
PyIndexOk(a, i) == -Len(a) <= i /\ i < Len(a)

\* a[i] with negative-index wrap, for an index PyIndexOk accepts
PyIndex(a, i) == IF i < 0 THEN a[i + Len(a) + 1] ELSE a[i + 1]

\* range(start, stop, step) for step = 1 or step = -1
RECURSIVE PyRange(_, _, _)
PyRange(start, stop, step) ==
    IF (step > 0 /\ start >= stop) \/ (step < 0 /\ start <= stop)
    THEN <<>>
    ELSE <<start>> \o PyRange(start + step, stop, step)

\* sum of the entries of a sequence
RECURSIVE SeqSum(_)
SeqSum(s) == IF s = <<>> THEN 0 ELSE Head(s) + SeqSum(Tail(s))

\* left fold of a sequence, the shape of a Python for loop over it
RECURSIVE FoldSeq(_, _, _)
FoldSeq(Op(_, _), st, s) ==
    IF s = <<>> THEN st ELSE FoldSeq(Op, Op(st, Head(s)), Tail(s))

\* a sequence of n copies of v (np.zeros(n) for v = 0)
Fill(n, v) == [i \in 1..n |-> v]

\* elementwise sum of two equally long vectors
VecAdd(a, b) == [i \in 1..Len(a) |-> a[i] + b[i]]

\* the elements of a finite set of integers in increasing order
RECURSIVE SortedSeq(_)
SortedSeq(S) ==
    IF S = {} THEN <<>>
    ELSE LET m == CHOOSE x \in S : \A y \in S : x <= y
         IN  <<m>> \o SortedSeq(S \ {m})

\* ------------------------------------------------------------------------
\* Input trees.  A box is a position <<level, k>> of a binary subdivision of
\* the root interval; box ids number the positions level by level, the
\* root is box 0 and a child id of 0 means "absent child".
\* ------------------------------------------------------------------------

\* levels 0..f are full, below that only the leftmost box is subdivided;
\* prune drops the right box of the deepest level (an absent child)
TreeBoxes(n, f, prune) ==
    { p \in (0..(n - 1)) \X (0..(2^(n - 1) - 1)) :
        /\ p[2] < 2^p[1]
        /\ (p[1] <= f \/ p[2] <= 1)
        /\ ~(prune /\ n >= 2 /\ p = <<n - 1, 1>>) }

PosLess(p, q) == p[1] < q[1] \/ (p[1] = q[1] /\ p[2] < q[2])

IdOf(B, p) == Cardinality({q \in B : PosLess(q, p)})

PosOf(B, i) == CHOOSE p \in B : IdOf(B, p) = i

ChildPos(p, c) == <<p[1] + 1, 2 * p[2] + c>>

ParentPos(p) == <<p[1] - 1, p[2] \div 2>>

IsLeafPos(B, p) == ChildPos(p, 0) \notin B /\ ChildPos(p, 1) \notin B

\* left end of a box's interval, in units of the deepest level's box size
LeftEnd(n, p) == p[2] * 2^(n - 1 - p[1])

RightEnd(n, p) == (p[2] + 1) * 2^(n - 1 - p[1])

\* the leaves in left-to-right (tree) order carry (j*a + b) mod (MaxPerBox+1)
\* particles, j the leaf's rank: pat = <<a, b>>
LeafRank(B, n, p) ==
    Cardinality({q \in B : IsLeafPos(B, q) /\ LeftEnd(n, q) < LeftEnd(n, p)})

LeafCount(B, n, p, pat) ==
    IF IsLeafPos(B, p)
    THEN (LeafRank(B, n, p) * pat[1] + pat[2]) % (MaxPerBox + 1)
    ELSE 0

\* particles are stored in tree order: a box's particles start after those
\* of all leaves to its left
RECURSIVE SumOver(_, _)
SumOver(F(_), S) ==
    IF S = {} THEN 0
    ELSE LET x == CHOOSE y \in S : TRUE IN F(x) + SumOver(F, S \ {x})

ParticleStart(B, n, p, pat) ==
    SumOver(LAMBDA q : LeafCount(B, n, q, pat),
            {q \in B : LeftEnd(n, q) < LeftEnd(n, p)})

MkTree(n, f, prune, dims, spat, tpat) ==
    LET B  == TreeBoxes(n, f, prune)
        nb == Cardinality(B)
        P(i) == PosOf(B, i - 1)
        cid(p, c) == IF ChildPos(p, c) \in B THEN IdOf(B, ChildPos(p, c)) ELSE 0
    IN  [ nlevels    |-> n,
          nboxes     |-> nb,
          dimensions |-> dims,
          level_start_box_nrs |->
              [l \in 1..(n + 1) |-> Cardinality({q \in B : q[1] < l - 1})],
          box_levels     |-> [i \in 1..nb |-> P(i)[1]],
          box_parent_ids |->
              [i \in 1..nb |-> IF P(i)[1] = 0 THEN 0 ELSE IdOf(B, ParentPos(P(i)))],
          box_child_ids  |-> [i \in 1..nb |-> <<cid(P(i), 0), cid(P(i), 1)>>],
          box_left       |-> [i \in 1..nb |-> LeftEnd(n, P(i))],
          box_right      |-> [i \in 1..nb |-> RightEnd(n, P(i))],
          box_source_starts |-> [i \in 1..nb |-> ParticleStart(B, n, P(i), spat)],
          box_source_counts_nonchild |-> [i \in 1..nb |-> LeafCount(B, n, P(i), spat)],
          box_target_starts |-> [i \in 1..nb |-> ParticleStart(B, n, P(i), tpat)],
          box_target_counts_nonchild |-> [i \in 1..nb |-> LeafCount(B, n, P(i), tpat)],
          nsources |-> SumOver(LAMBDA q : LeafCount(B, n, q, spat), B),
          ntargets |-> SumOver(LAMBDA q : LeafCount(B, n, q, tpat), B) ]

\* ------------------------------------------------------------------------
\* Input traversals.  The interaction lists come from a dual descent of the
\* tree: a pair of boxes that is separated interacts through expansions,
\* a pair of leaves directly, any other pair is split.  Every (source,
\* target) pair of particles is then covered exactly once, whatever the
\* separation criterion; "away" is the criterion's parameter (boxes are
\* separated when the gap between them is at least away times the size of
\* the smaller one).
\* ------------------------------------------------------------------------

BoxSize(t, b) == At(t.box_right, b) - At(t.box_left, b)

BoxGap(t, a, b) ==
    Max(At(t.box_left, a) - At(t.box_right, b), At(t.box_left, b) - At(t.box_right, a))

Separated(t, a, b, away) ==
    BoxGap(t, a, b) >= away * Min(BoxSize(t, a), BoxSize(t, b))

Children(t, b) == {c \in {At(t.box_child_ids, b)[1], At(t.box_child_ids, b)[2]} : c # 0}

IsLeaf(t, b) == Children(t, b) = {}

\* a leaf target box against the descendants of a source box
RECURSIVE LeafVsSmaller(_, _, _, _)
LeafVsSmaller(t, tgt, src, away) ==
    IF Separated(t, tgt, src, away) THEN {<<3, tgt, src>>}
    ELSE IF IsLeaf(t, src) THEN {<<1, tgt, src>>}
    ELSE UNION {LeafVsSmaller(t, tgt, c, away) : c \in Children(t, src)}

\* the descendants of a target box against a leaf source box
RECURSIVE SmallerVsLeaf(_, _, _, _)
SmallerVsLeaf(t, tgt, src, away) ==
    IF Separated(t, tgt, src, away) THEN {<<4, tgt, src>>}
    ELSE IF IsLeaf(t, tgt) THEN {<<1, tgt, src>>}
    ELSE UNION {SmallerVsLeaf(t, c, src, away) : c \in Children(t, tgt)}

\* two boxes of the same level
RECURSIVE DualDescent(_, _, _, _)
DualDescent(t, tgt, src, away) ==
    IF Separated(t, tgt, src, away) THEN {<<2, tgt, src>>}
    ELSE IF IsLeaf(t, tgt) /\ IsLeaf(t, src) THEN {<<1, tgt, src>>}
    ELSE IF IsLeaf(t, tgt)
    THEN UNION {LeafVsSmaller(t, tgt, c, away) : c \in Children(t, src)}
    ELSE IF IsLeaf(t, src)
    THEN UNION {SmallerVsLeaf(t, c, src, away) : c \in Children(t, tgt)}
    ELSE UNION {DualDescent(t, ct, cs, away) :
                    ct \in Children(t, tgt), cs \in Children(t, src)}

\* concatenation of a sequence of sequences
RECURSIVE Concat(_)
Concat(ss) == IF ss = <<>> THEN <<>> ELSE Head(ss) \o Concat(Tail(ss))

\* CSR form of per-box lists: starts has one more entry than there are boxes
CsrStarts(ls) == [i \in 1..(Len(ls) + 1) |-> Len(Concat(SubSeq(ls, 1, i - 1)))]

Csr(ls) == [starts |-> CsrStarts(ls), lists |-> Concat(ls)]

\* where each level begins in a level-ordered box list
LevelStarts(t, boxes) ==
    [l \in 1..(t.nlevels + 1) |->
        Cardinality({i \in 1..Len(boxes) : At(t.box_levels, boxes[i]) < l - 1})]

MkTraversal(t, away) ==
    LET inter == DualDescent(t, 0, 0, away)
        all     == SortedSeq(0..(t.nboxes - 1))
        leaves  == SortedSeq({b \in 0..(t.nboxes - 1) : IsLeaf(t, b)})
        parents == SortedSeq({b \in 0..(t.nboxes - 1) : ~IsLeaf(t, b)})
        from(kind, b) == SortedSeq({x[3] : x \in {y \in inter : y[1] = kind /\ y[2] = b}})
        perbox(kind, boxes) == [i \in 1..Len(boxes) |-> from(kind, boxes[i])]
        smaller(lev) ==
            [i \in 1..Len(leaves) |->
                SortedSeq({x[3] : x \in {y \in inter :
                    y[1] = 3 /\ y[2] = leaves[i] /\ At(t.box_levels, y[3]) = lev}})]
    IN  [ well_sep_is_n_away |-> away,
          source_boxes |-> leaves,
          level_start_source_box_nrs |-> LevelStarts(t, leaves),
          source_parent_boxes |-> parents,
          level_start_source_parent_box_nrs |-> LevelStarts(t, parents),
          target_boxes |-> leaves,
          level_start_target_box_nrs |-> LevelStarts(t, leaves),
          target_or_target_parent_boxes |-> all,
          level_start_target_or_target_parent_box_nrs |-> LevelStarts(t, all),
          neighbor_source_boxes |-> Csr(perbox(1, leaves)),
          from_sep_siblings |-> Csr(perbox(2, all)),
          from_sep_smaller_by_level |->
              [l \in 1..t.nlevels |-> Csr(smaller(l - 1))],
          target_boxes_sep_smaller_by_source_level |->
              [l \in 1..t.nlevels |-> leaves],
          from_sep_bigger |-> Csr(perbox(4, all)) ]

\* ------------------------------------------------------------------------
\* Call results: a value returned, or the exception raised
\* ------------------------------------------------------------------------

Ok(v) == [err |-> "none", val |-> v]

Raise(e) == [err |-> e, val |-> <<>>]

\* an optional argument: <<>> is Python's None, <<v>> the value v
IsNone(o) == o = <<>>

\* ------------------------------------------------------------------------
\* FMMLibExpansionWrangler: constructor
\* ------------------------------------------------------------------------

\* a level-to-order callable of the shape the tests pass: order hi on the
\* levels below cut, order lo from cut on
PolicyOrder(pol, lev) == IF lev < pol.cut THEN pol.hi ELSE pol.lo

\* the object before __init__ has assigned anything
BlankWrangler ==
    [ raised |-> "none", set_fields |-> {}, tree |-> <<>>, eqn_letter |-> "",
      helmholtz_k |-> 0, level_nterms |-> <<>>, dtype |-> "", dim |-> 0 ]

\* the nterms / fmm_level_to_nterms conflict test of __init__
ConflictingOrderArgs_Never(fmm_level_to_nterms, nterms) == FALSE

ConflictingOrderArgs(fmm_level_to_nterms, nterms) ==
    ~IsNone(nterms) /\ ~IsNone(fmm_level_to_nterms)

\* the callable __init__ ends up with: the deprecated nterms makes a
\* constant one
EffectivePolicy(fmm_level_to_nterms, nterms) ==
    IF ~IsNone(nterms)
    THEN <<[lo |-> nterms[1], hi |-> nterms[1], cut |-> 0]>>
    ELSE fmm_level_to_nterms

\* __init__: the object as the constructor leaves it; raised # "none" when
\* it did not return
WranglerInit(t, helmholtz_k, fmm_level_to_nterms, nterms) ==
    IF ConflictingOrderArgs(fmm_level_to_nterms, nterms)
    THEN [BlankWrangler EXCEPT !.raised = "TypeError"]
    ELSE
      LET pol == EffectivePolicy(fmm_level_to_nterms, nterms)
          w1  == [BlankWrangler EXCEPT
                    !.tree = t,
                    !.helmholtz_k = helmholtz_k,
                    !.eqn_letter = IF helmholtz_k = 0 THEN "l" ELSE "h",
                    !.set_fields = {"tree", "eqn_letter", "kernel_kwargs"}]
      IN  IF IsNone(pol) /\ t.nlevels > 0
          THEN \* calling None for level 0
               [w1 EXCEPT !.raised = "TypeError"]
          ELSE [w1 EXCEPT
                  !.level_nterms =
                      [l \in 1..t.nlevels |-> PolicyOrder(pol[1], l - 1)],
                  !.dtype = "complex128",
                  !.dim = t.dimensions,
                  !.set_fields = @ \cup {"level_nterms", "dtype", "ifgrad", "dim",
                                         "dipole_vec", "dp_suffix"}]

\* ------------------------------------------------------------------------
\* FMMLibExpansionWrangler: data vector utilities
\* ------------------------------------------------------------------------

\* expansion_shape treating every dimensionality other than 2 as 3
expansion_shape_NoDimCheck(w, nterms) ==
    IF w.dim = 2 /\ w.eqn_letter = "l" THEN Ok(<<nterms + 1>>)
    ELSE IF w.dim = 2 /\ w.eqn_letter = "h" THEN Ok(<<2 * nterms + 1>>)
    ELSE Ok(<<2 * nterms + 1, nterms + 1>>)

expansion_shape(w, nterms) ==
    IF w.dim = 2 /\ w.eqn_letter = "l" THEN Ok(<<nterms + 1>>)
    ELSE IF w.dim = 2 /\ w.eqn_letter = "h" THEN Ok(<<2 * nterms + 1>>)
    ELSE IF w.dim = 3 THEN Ok(<<2 * nterms + 1, nterms + 1>>)
    ELSE Raise("ValueError")

\* pytools.product
RECURSIVE product(_)
product(s) == IF s = <<>> THEN 1 ELSE Head(s) * product(Tail(s))

\* the order_to_size lambda of the two level_starts methods
order_to_size(w, nterms) ==
    LET sh == expansion_shape(w, nterms)
    IN  IF sh.err # "none" THEN sh ELSE Ok(product(sh.val))

\* one iteration of the loop of _expansions_level_starts
LevelStartsStep_NoCarry(w, result, lev) ==
    LET lev_nboxes == At(w.tree.level_start_box_nrs, lev + 1)
                      - At(w.tree.level_start_box_nrs, lev)
        expn_size  == order_to_size(w, At(w.level_nterms, lev))
    IN  IF result.err # "none" THEN result
        ELSE IF expn_size.err # "none" THEN expn_size
        ELSE Ok(Append(result.val, expn_size.val * lev_nboxes))

LevelStartsStep(w, result, lev) ==
    LET lev_nboxes == At(w.tree.level_start_box_nrs, lev + 1)
                      - At(w.tree.level_start_box_nrs, lev)
        expn_size  == order_to_size(w, At(w.level_nterms, lev))
    IN  IF result.err # "none" THEN result
        ELSE IF expn_size.err # "none" THEN expn_size
        ELSE Ok(Append(result.val,
                       result.val[Len(result.val)] + expn_size.val * lev_nboxes))

_expansions_level_starts(w) ==
    FoldSeq(LAMBDA result, lev : LevelStartsStep(w, result, lev),
            Ok(<<0>>), PyRange(0, w.tree.nlevels, 1))

multipole_expansions_level_starts(w) == _expansions_level_starts(w)

local_expansions_level_starts(w) == _expansions_level_starts(w)

\* the body shared by multipole_expansions_view and local_expansions_view:
\* two slices unpacked into pairs, then a reshape of the flat slice.
\* The view is returned as the flat range it aliases and its row shape.
ExpansionsView(w, level_starts, exps, level) ==
    LET boxes == PySlice(w.tree.level_start_box_nrs, level, level + 2)
    IN  IF Len(boxes) # 2 THEN Raise("ValueError")
        ELSE IF level_starts.err # "none" THEN level_starts
        ELSE
          LET expn == PySlice(level_starts.val, level, level + 2)
          IN  IF Len(expn) # 2 THEN Raise("ValueError")
              ELSE IF ~PyIndexOk(w.level_nterms, level) THEN Raise("IndexError")
              ELSE
                LET box_start == boxes[1]
                    box_stop  == boxes[2]
                    flat  == PySlice(exps, expn[1], expn[2])
                    shape == expansion_shape(w, PyIndex(w.level_nterms, level))
                IN  IF shape.err # "none" THEN shape
                    ELSE IF Len(flat) # (box_stop - box_start) * product(shape.val)
                    THEN Raise("ValueError")
                    ELSE Ok([ box_start  |-> box_start,
                              expn_start |-> expn[1],
                              expn_stop  |-> expn[2],
                              nrows      |-> box_stop - box_start,
                              row_shape  |-> shape.val,
                              row_size   |-> product(shape.val) ])

multipole_expansions_view(w, mpoles, level) ==
    ExpansionsView(w, multipole_expansions_level_starts(w), mpoles, level)

local_expansions_view(w, locals, level) ==
    ExpansionsView(w, local_expansions_level_starts(w), locals, level)

\* an element type chosen by the kernel
BufferDType_ByKernel(w) == IF w.eqn_letter = "h" THEN "complex128" ELSE "float64"

\* the element type of the buffers the zeros functions allocate:
\* np.zeros(..., dtype=self.dtype)
BufferDType(w) == w.dtype

\* a buffer that is not zeroed
ExpansionZeros_Stale(w, level_starts) ==
    IF level_starts.err # "none" THEN level_starts
    ELSE Ok(Fill(PyIndex(level_starts.val, -1), 1))

ExpansionZeros(w, level_starts) ==
    IF level_starts.err # "none" THEN level_starts
    ELSE Ok(Fill(PyIndex(level_starts.val, -1), 0))

multipole_expansion_zeros(w) ==
    ExpansionZeros(w, multipole_expansions_level_starts(w))

local_expansion_zeros(w) ==
    ExpansionZeros(w, local_expansions_level_starts(w))

\* an output that is not zeroed
output_zeros_Stale(w) == Fill(w.tree.ntargets, 1)

\* output_zeros without gradients (ifgrad = False)
output_zeros(w) == Fill(w.tree.ntargets, 0)

\* finalize_potentials: the scale factor is kept symbolic
finalize_potentials(w, potential) ==
    IF w.eqn_letter = "l" /\ w.dim = 2
    THEN Ok([scale |-> "-1/(2 pi)", real_part |-> TRUE, pot |-> potential])
    ELSE IF w.eqn_letter = "h" /\ w.dim = 2
    THEN Ok([scale |-> "1", real_part |-> FALSE, pot |-> potential])
    ELSE IF w.eqn_letter \in {"l", "h"} /\ w.dim = 3
    THEN Ok([scale |-> "1/(4 pi)", real_part |-> FALSE, pot |-> potential])
    ELSE Raise("NotImplementedError")

\* ------------------------------------------------------------------------
\* Source/target reordering (the same indexing in both wranglers)
\* ------------------------------------------------------------------------

\* numpy fancy indexing a[ids]: entry i of the result is a[ids[i]]
Gather(a, ids) == [i \in 1..Len(ids) |-> At(a, ids[i])]

reorder_sources(t, source_array) == Gather(source_array, t.user_source_ids)

reorder_potentials_BySourceIds(t, pot) == Gather(pot, t.user_source_ids)

reorder_potentials(t, pot) == Gather(pot, t.sorted_target_ids)

\* ------------------------------------------------------------------------
\* Particle slices of a box (both wranglers)
\* ------------------------------------------------------------------------

_get_source_slice(t, ibox) ==
    [ start |-> At(t.box_source_starts, ibox),
      stop  |-> At(t.box_source_starts, ibox) + At(t.box_source_counts_nonchild, ibox) ]

\* the target slice taken from particle 0 instead of box_target_starts
_get_target_slice_FromZero(t, ibox) ==
    [ start |-> 0, stop |-> At(t.box_target_counts_nonchild, ibox) ]

_get_target_slice(t, ibox) ==
    [ start |-> At(t.box_target_starts, ibox),
      stop  |-> At(t.box_target_starts, ibox) + At(t.box_target_counts_nonchild, ibox) ]

\* np.sum(a[pslice])
SliceSum(a, pslice) == SeqSum(PySlice(a, pslice.start, pslice.stop))

\* a[i] += d
AddAt(a, i, d) == [a EXCEPT ![i + 1] = @ + d]

\* a[pslice] = v
SetSlice(a, pslice, v) ==
    [k \in 1..Len(a) |-> IF pslice.start < k /\ k <= pslice.stop THEN v ELSE a[k]]

\* a[pslice] += v
AddSlice(a, pslice, v) ==
    [k \in 1..Len(a) |-> IF pslice.start < k /\ k <= pslice.stop THEN a[k] + v ELSE a[k]]

\* ------------------------------------------------------------------------
\* ConstantOneExpansionWrangler: one number per box, kernel constant 1
\* ------------------------------------------------------------------------

Ref_expansion_zeros(t) == Fill(t.nboxes, 0)

Ref_potential_zeros(t) == Fill(t.ntargets, 0)

Ref_form_multipoles(t, level_start_source_box_nrs, source_boxes, src_weights) ==
    FoldSeq(LAMBDA mpoles, ibox :
                AddAt(mpoles, ibox, SliceSum(src_weights, _get_source_slice(t, ibox))),
            Ref_expansion_zeros(t), source_boxes)

\* a walk that goes on up to the root
CoarsenSourceLevels_ToRoot(nlevels) == PyRange(nlevels - 1, 0, -1)

\* the source levels coarsen_multipoles walks: range(nlevels-1, 2, -1)
CoarsenSourceLevels_StopAtThree(nlevels) == PyRange(nlevels - 1, 3, -1)

CoarsenSourceLevels(nlevels) == PyRange(nlevels - 1, 2, -1)

Ref_coarsen_multipoles(t, level_start_source_parent_box_nrs, source_parent_boxes, mpoles) ==
    FoldSeq(LAMBDA mp1, source_level :
        LET target_level == source_level - 1
            ss == PySlice(level_start_source_parent_box_nrs,
                          target_level, target_level + 2)
        IN  FoldSeq(LAMBDA mp2, ibox :
                FoldSeq(LAMBDA mp3, child :
                            IF child # 0 THEN AddAt(mp3, ibox, At(mp3, child)) ELSE mp3,
                        mp2, At(t.box_child_ids, ibox)),
                mp1, PySlice(source_parent_boxes, ss[1], ss[2])),
        mpoles, CoarsenSourceLevels(t.nlevels))

\* sum over a CSR list entry, the inner loop of the reference passes
Ref_ListSum(starts, lists, i, F(_)) ==
    LET se == PySlice(starts, i, i + 2)
    IN  FoldSeq(LAMBDA acc, src_ibox : acc + F(src_ibox), 0, PySlice(lists, se[1], se[2]))

Ref_eval_direct(t, target_boxes, neighbor_sources_starts, neighbor_sources_lists, src_weights) ==
    FoldSeq(LAMBDA pot, itgt_box :
        LET tgt_ibox == At(target_boxes, itgt_box)
            src_sum  == Ref_ListSum(neighbor_sources_starts, neighbor_sources_lists,
                            itgt_box,
                            LAMBDA src_ibox :
                                SliceSum(src_weights, _get_source_slice(t, src_ibox)))
        IN  SetSlice(pot, _get_target_slice(t, tgt_ibox), src_sum),
        Ref_potential_zeros(t), PyRange(0, Len(target_boxes), 1))

Ref_multipole_to_local(t, level_start_nrs, target_or_target_parent_boxes, starts, lists, mpoles) ==
    FoldSeq(LAMBDA loc, itgt_box :
        LET tgt_ibox == At(target_or_target_parent_boxes, itgt_box)
            contrib  == Ref_ListSum(starts, lists, itgt_box,
                            LAMBDA src_ibox : At(mpoles, src_ibox))
        IN  AddAt(loc, tgt_ibox, contrib),
        Ref_expansion_zeros(t), PyRange(0, Len(target_or_target_parent_boxes), 1))

Ref_eval_multipoles(t, target_boxes_by_source_level, from_sep_smaller_by_level, mpoles) ==
    FoldSeq(LAMBDA pot1, level :
        LET ssn == At(from_sep_smaller_by_level, level)
            tbs == At(target_boxes_by_source_level, level)
        IN  FoldSeq(LAMBDA pot2, itgt_box :
                LET tgt_ibox == At(tbs, itgt_box)
                    contrib  == Ref_ListSum(ssn.starts, ssn.lists, itgt_box,
                                    LAMBDA src_ibox : At(mpoles, src_ibox))
                IN  AddSlice(pot2, _get_target_slice(t, tgt_ibox), contrib),
                pot1, PyRange(0, Len(tbs), 1)),
        Ref_potential_zeros(t), PyRange(0, Len(from_sep_smaller_by_level), 1))

Ref_form_locals(t, level_start_nrs, target_or_target_parent_boxes, starts, lists, src_weights) ==
    FoldSeq(LAMBDA loc, itgt_box :
        LET tgt_ibox == At(target_or_target_parent_boxes, itgt_box)
            contrib  == Ref_ListSum(starts, lists, itgt_box,
                            LAMBDA src_ibox :
                                SliceSum(src_weights, _get_source_slice(t, src_ibox)))
        IN  AddAt(loc, tgt_ibox, contrib),
        Ref_expansion_zeros(t), PyRange(0, Len(target_or_target_parent_boxes), 1))

Ref_refine_locals(t, level_start_nrs, target_or_target_parent_boxes, locals) ==
    FoldSeq(LAMBDA loc1, target_lev :
        LET ss == PySlice(level_start_nrs, target_lev, target_lev + 2)
        IN  FoldSeq(LAMBDA loc2, ibox :
                        AddAt(loc2, ibox, At(loc2, At(t.box_parent_ids, ibox))),
                    loc1, PySlice(target_or_target_parent_boxes, ss[1], ss[2])),
        locals, PyRange(1, t.nlevels, 1))

Ref_eval_locals(t, level_start_target_box_nrs, target_boxes, locals) ==
    FoldSeq(LAMBDA pot, ibox :
                AddSlice(pot, _get_target_slice(t, ibox), At(locals, ibox)),
            Ref_potential_zeros(t), target_boxes)

Ref_finalize_potentials(pot) == pot

\* ------------------------------------------------------------------------
\* FMMLibExpansionWrangler: rows of a level view, kernel routines
\* ------------------------------------------------------------------------

\* view[i] is a valid row index (negative indices wrap once)
RowOk(view, i) == -view.nrows <= i /\ i < view.nrows

\* every row of a view at the offset of row 0
RowOffset_First(view, i) == view.expn_start

\* offset in the flat buffer of the first coefficient of view[i]
RowOffset(view, i) ==
    view.expn_start + (IF i < 0 THEN i + view.nrows ELSE i) * view.row_size

\* view[i]
GetRow(buf, view, i) ==
    SubSeq(buf, RowOffset(view, i) + 1, RowOffset(view, i) + view.row_size)

\* whether a value of Len(vec) coefficients can be stored into a row
FitsRow(view, vec) == Len(vec) = view.row_size \/ Len(vec) = 1

\* the coefficient a stored value puts at position k of the row
Coeff(vec, k) == IF Len(vec) = 1 THEN vec[1] ELSE vec[k]

\* view[i] = vec, written through to the flat buffer
SetRow(buf, view, i, vec) ==
    LET o == RowOffset(view, i)
    IN  [k \in 1..Len(buf) |->
            IF o < k /\ k <= o + view.row_size THEN Coeff(vec, k - o) ELSE buf[k]]

\* view[i] = vec in place of view[i] += vec
AddRow_Assign(buf, view, i, vec) == SetRow(buf, view, i, vec)

\* view[i] += vec
AddRow(buf, view, i, vec) ==
    LET o == RowOffset(view, i)
    IN  [k \in 1..Len(buf) |->
            IF o < k /\ k <= o + view.row_size
            THEN buf[k] + Coeff(vec, k - o) ELSE buf[k]]

\* Kernel routines.  The library is outside the repository; a routine is
\* represented by its interface: the shape of what it returns, and values
\* that carry the total charge in every coefficient.
NCoeffs(w, nterms) == product(expansion_shape(w, nterms).val)

\* formmp / formta: expansion of order nterms of the given charges
FormExpansion(w, charge, nterms) == Fill(NCoeffs(w, nterms), SeqSum(charge))

\* mpmp / locloc / mploc for one pair: expn1 re-expanded at order nterms2
Translate(w, expn1, nterms2) == Fill(NCoeffs(w, nterms2), expn1[1])

\* mpeval / taeval: the potential of an expansion at ntargets targets
EvalExpansion(expn, ntargets) == Fill(ntargets, expn[1])

\* potgrad / potfld: the potential of the given charges at ntargets targets
DirectKernel(charge, ntargets) == Fill(ntargets, SeqSum(charge))

\* a pass in progress: the buffer it works on, the kernel calls and output
\* updates it has made so far, the exception that ended it
PassStart(buf) == [err |-> "none", buf |-> buf, trace |-> <<>>, ncalls |-> 0]

Abort(st, e) == [st EXCEPT !.err = e]

\* one kernel call: routine, level, the box it is made for, the source box
\* it takes its input from (-1: a batch), the boxes whose
\* expansions it reads and (when its result is stored) writes, the length
\* of its input, the status values it returned
KernelCall(rout, lev, box, src, rd, wr, n, ier) ==
    [ kind |-> "call", rout |-> rout, lev |-> lev, box |-> box, src |-> src,
      rd |-> rd, wr |-> wr, n |-> n, ier |-> ier ]

\* one add_potgrad_onto_output on the target slice of a box
OutputUpdate(box, pslice) ==
    [ kind |-> "out", rout |-> "add_potgrad_onto_output", lev |-> 0, box |-> box, src |-> -1,
      rd |-> {}, wr |-> {}, n |-> pslice.stop - pslice.start, ier |-> <<>> ]

\* a kernel call is issued
Record(st, ev) == [st EXCEPT !.trace = Append(@, ev), !.ncalls = @ + 1]

\* an update that is not a kernel call is made
Note(st, ev) == [st EXCEPT !.trace = Append(@, ev)]

\* a row of an expansion view is assigned a value accumulated over calls
RowStore(lev, box) ==
    [ kind |-> "store", rout |-> "view[row] = contrib", lev |-> lev, box |-> box, src |-> -1,
      rd |-> {}, wr |-> {box}, n |-> 0, ier |-> <<>> ]

\* the status of the next kernel call: the environment makes call number
\* fail.call of the pass fail (fail.call = 0: no call fails), for a batched
\* call at the entry numbered fail.entry
KernelStatus(st, fail, nentries) ==
    [e \in 1..nentries |->
        IF st.ncalls + 1 = fail.call /\ e = (fail.entry % nentries) + 1
        THEN 1 ELSE 0]

\* the status array of the next batched call, one entry per target box:
\* the array is handed in as zeros and only a translated pair raises an
\* entry, so the entry that fails is one of a target box with sources
BatchStatus(st, fail, nsrc_boxes_per_tgt_box) ==
    LET with_pairs == {e \in 1..Len(nsrc_boxes_per_tgt_box) :
                          nsrc_boxes_per_tgt_box[e] > 0}
    IN  [e \in 1..Len(nsrc_boxes_per_tgt_box) |->
            IF /\ st.ncalls + 1 = fail.call
               /\ e \in with_pairs
               /\ Cardinality({d \in with_pairs : d < e})
                     = fail.entry % Cardinality(with_pairs)
            THEN 1 ELSE 0]

\* `pslice.stop - pslice.start == 0`
EmptyRange_Never(pslice) == FALSE

EmptyRange(pslice) == pslice.stop - pslice.start = 0

\* `if ier:` after formmp and formta
StatusFatal_Ignored(ier) == FALSE

StatusFatal(ier) == ier # 0

\* `(ier != 0).any()`
AnyNonzero_All(ier) == \A e \in 1..Len(ier) : ier[e] # 0

AnyNonzero(ier) == \E e \in 1..Len(ier) : ier[e] # 0

\* the wrapper of get_translation_routine: in 2 dimensions it returns the
\* routine's result as it is, otherwise it raises on a nonzero status
TranslationRaises(w, ier) == w.dim # 2 /\ AnyNonzero(ier)

\* the 3-dimensional wrapper of get_expn_eval_routine raises on a nonzero
\* status, the 2-dimensional one has no status to look at
ExpnEvalRaises(w, ier) == w.dim = 3 /\ AnyNonzero(ier)

\* ------------------------------------------------------------------------
\* FMMLibExpansionWrangler: the passes.  Each takes the pass arguments and
\* the environment's choice of a failing kernel call, and gives the pass in
\* its final state.
\* ------------------------------------------------------------------------

\* body of the inner loop of form_multipoles
FormMultipolesBox(w, view, lev, src_weights, fail, st, src_ibox) ==
    LET pslice == _get_source_slice(w.tree, src_ibox)
        charge == PySlice(src_weights, pslice.start, pslice.stop)
        ier    == KernelStatus(st, fail, 1)
        mpole  == FormExpansion(w, charge, At(w.level_nterms, lev))
        row    == src_ibox - view.box_start
        stored == RowOk(view, row) /\ FitsRow(view, mpole)
        called == Record(st, KernelCall("formmp", lev, src_ibox, src_ibox, {},
                             IF ~StatusFatal(ier[1]) /\ stored THEN {src_ibox} ELSE {},
                             Len(charge), ier))
    IN  IF st.err # "none" THEN st
        ELSE IF EmptyRange(pslice) THEN st
        ELSE IF StatusFatal(ier[1]) THEN Abort(called, "RuntimeError")
        ELSE IF ~RowOk(view, row) THEN Abort(called, "IndexError")
        ELSE IF ~FitsRow(view, mpole) THEN Abort(called, "ValueError")
        ELSE [called EXCEPT !.buf = SetRow(st.buf, view, row, mpole)]

\* body of the level loop of form_multipoles
FormMultipolesLevel(w, level_start_source_box_nrs, source_boxes, src_weights, fail, st, lev) ==
    LET ss == PySlice(level_start_source_box_nrs, lev, lev + 2)
        v  == multipole_expansions_view(w, st.buf, lev)
    IN  IF st.err # "none" THEN st
        ELSE IF Len(ss) # 2 THEN Abort(st, "ValueError")
        ELSE IF ss[1] = ss[2] THEN st
        ELSE IF v.err # "none" THEN Abort(st, v.err)
        ELSE FoldSeq(LAMBDA s, src_ibox :
                         FormMultipolesBox(w, v.val, lev, src_weights, fail, s, src_ibox),
                     st, PySlice(source_boxes, ss[1], ss[2]))

form_multipoles(w, level_start_source_box_nrs, source_boxes, src_weights, fail) ==
    LET mpoles == multipole_expansion_zeros(w)
    IN  IF mpoles.err # "none" THEN Abort(PassStart(<<>>), mpoles.err)
        ELSE FoldSeq(LAMBDA st, lev :
                         FormMultipolesLevel(w, level_start_source_box_nrs,
                             source_boxes, src_weights, fail, st, lev),
                     PassStart(mpoles.val), PyRange(0, w.tree.nlevels, 1))

\* the child loop requesting the translation at the order of the child's
\* level
CoarsenChild_SourceOrder(w, sview, tview, source_level, ibox, fail, st, child) ==
    LET ier    == KernelStatus(st, fail, 1)
        srow   == child - sview.box_start
        trow   == ibox - tview.box_start
        new_mp == Translate(w, GetRow(st.buf, sview, srow),
                            At(w.level_nterms, source_level))
    IN  IF st.err # "none" \/ child = 0 THEN st
        ELSE IF ~RowOk(sview, srow) THEN Abort(st, "IndexError")
        ELSE IF TranslationRaises(w, ier)
        THEN Abort(Record(st, KernelCall("mpmp", source_level, ibox, child, {child}, {},
                                         1, ier)),
                   "RuntimeError")
        ELSE IF ~RowOk(tview, trow) THEN Abort(st, "IndexError")
        ELSE IF ~FitsRow(tview, new_mp) THEN Abort(st, "ValueError")
        ELSE [ Record(st, KernelCall("mpmp", source_level, ibox, child, {child}, {ibox},
                                     1, ier))
               EXCEPT !.buf = AddRow(st.buf, tview, trow, new_mp) ]

\* body of the child loop of coarsen_multipoles
CoarsenChild(w, sview, tview, source_level, ibox, fail, st, child) ==
    LET target_level == source_level - 1
        ier    == KernelStatus(st, fail, 1)
        srow   == child - sview.box_start
        trow   == ibox - tview.box_start
        new_mp == Translate(w, GetRow(st.buf, sview, srow),
                            At(w.level_nterms, target_level))
    IN  IF st.err # "none" \/ child = 0 THEN st
        ELSE IF ~RowOk(sview, srow) THEN Abort(st, "IndexError")
        ELSE IF TranslationRaises(w, ier)
        THEN Abort(Record(st, KernelCall("mpmp", source_level, ibox, child, {child}, {},
                                         1, ier)),
                   "RuntimeError")
        ELSE IF ~RowOk(tview, trow) THEN Abort(st, "IndexError")
        ELSE IF ~FitsRow(tview, new_mp) THEN Abort(st, "ValueError")
        ELSE [ Record(st, KernelCall("mpmp", source_level, ibox, child, {child}, {ibox},
                                     1, ier))
               EXCEPT !.buf = AddRow(st.buf, tview, trow, new_mp) ]

\* body of the level loop of coarsen_multipoles
CoarsenLevel(w, level_start_source_parent_box_nrs, source_parent_boxes, fail, st, source_level) ==
    LET target_level == source_level - 1
        ss == PySlice(level_start_source_parent_box_nrs, target_level, target_level + 2)
        sv == multipole_expansions_view(w, st.buf, source_level)
        tv == multipole_expansions_view(w, st.buf, target_level)
    IN  IF st.err # "none" THEN st
        ELSE IF Len(ss) # 2 THEN Abort(st, "ValueError")
        ELSE IF sv.err # "none" THEN Abort(st, sv.err)
        ELSE IF tv.err # "none" THEN Abort(st, tv.err)
        ELSE FoldSeq(LAMBDA s1, ibox :
                 FoldSeq(LAMBDA s2, child :
                             CoarsenChild(w, sv.val, tv.val, source_level, ibox,
                                          fail, s2, child),
                         s1, At(w.tree.box_child_ids, ibox)),
                 st, PySlice(source_parent_boxes, ss[1], ss[2]))

\* coarsen_multipoles works in place on mpoles and returns nothing
coarsen_multipoles(w, level_start_source_parent_box_nrs, source_parent_boxes, mpoles, fail) ==
    FoldSeq(LAMBDA st, source_level :
                CoarsenLevel(w, level_start_source_parent_box_nrs,
                             source_parent_boxes, fail, st, source_level),
            PassStart(mpoles), CoarsenSourceLevels(w.tree.nlevels))

\* the eval-routine getters know dimensions 2 and 3 only
EvalRoutineKnown(w) == w.dim \in {2, 3}

\* a source loop that keeps only the last neighbor box's potential
EvalDirectSource_Last(w, tgt_ibox, tgt_pslice, src_weights, fail, sa, src_ibox) ==
    LET src_pslice == _get_source_slice(w.tree, src_ibox)
        charge  == PySlice(src_weights, src_pslice.start, src_pslice.stop)
        tmp_pot == DirectKernel(charge, tgt_pslice.stop - tgt_pslice.start)
    IN  IF EmptyRange(src_pslice) THEN sa
        ELSE [ st  |-> Record(sa.st, KernelCall("direct", 0, tgt_ibox, src_ibox, {}, {},
                                  Len(charge), <<>>)),
               acc |-> tmp_pot ]

\* body of the source loop of eval_direct; acc is tgt_pot_result
EvalDirectSource(w, tgt_ibox, tgt_pslice, src_weights, fail, sa, src_ibox) ==
    LET src_pslice == _get_source_slice(w.tree, src_ibox)
        charge  == PySlice(src_weights, src_pslice.start, src_pslice.stop)
        tmp_pot == DirectKernel(charge, tgt_pslice.stop - tgt_pslice.start)
    IN  IF EmptyRange(src_pslice) THEN sa
        ELSE [ st  |-> Record(sa.st, KernelCall("direct", 0, tgt_ibox, src_ibox, {}, {},
                                  Len(charge), <<>>)),
               acc |-> VecAdd(sa.acc, tmp_pot) ]

\* add_potgrad_onto_output without gradients: output[output_slice] += pot
add_potgrad_onto_output(output, output_slice, pot) ==
    [k \in 1..Len(output) |->
        IF output_slice.start < k /\ k <= output_slice.stop
        THEN output[k] + pot[k - output_slice.start] ELSE output[k]]

\* body of the target loop of eval_direct
EvalDirectTarget(w, target_boxes, neighbor_sources_starts, neighbor_sources_lists, src_weights, fail, st, itgt_box) ==
    LET tgt_ibox   == At(target_boxes, itgt_box)
        tgt_pslice == _get_target_slice(w.tree, tgt_ibox)
        se == PySlice(neighbor_sources_starts, itgt_box, itgt_box + 2)
        sa == FoldSeq(LAMBDA a, src_ibox :
                          EvalDirectSource(w, tgt_ibox, tgt_pslice, src_weights,
                                           fail, a, src_ibox),
                      [st |-> st, acc |-> Fill(tgt_pslice.stop - tgt_pslice.start, 0)],
                      PySlice(neighbor_sources_lists, se[1], se[2]))
    IN  IF st.err # "none" THEN st
        ELSE IF EmptyRange(tgt_pslice) THEN st
        ELSE IF Len(se) # 2 THEN Abort(st, "ValueError")
        ELSE [ Note(sa.st, OutputUpdate(tgt_ibox, tgt_pslice))
               EXCEPT !.buf = add_potgrad_onto_output(st.buf, tgt_pslice, sa.acc) ]

eval_direct(w, target_boxes, neighbor_sources_starts, neighbor_sources_lists, src_weights, fail) ==
    IF ~EvalRoutineKnown(w) THEN Abort(PassStart(output_zeros(w)), "ValueError")
    ELSE FoldSeq(LAMBDA st, itgt_box :
                     EvalDirectTarget(w, target_boxes, neighbor_sources_starts,
                         neighbor_sources_lists, src_weights, fail, st, itgt_box),
                 PassStart(output_zeros(w)), PyRange(0, Len(target_boxes), 1))

\* the batched call translating only the first pair of every target
MplocRow_FirstOnly(w, mpoles, sview, lev, starts_on_lvl, lists, i) ==
    FoldSeq(LAMBDA acc, src_ibox :
                VecAdd(acc, Translate(w,
                    GetRow(mpoles, sview, src_ibox - sview.box_start),
                    At(w.level_nterms, lev))),
            Fill(NCoeffs(w, At(w.level_nterms, lev)), 0),
            PySlice(lists, At(starts_on_lvl, i),
                    Min(At(starts_on_lvl, i) + 1, At(starts_on_lvl, i + 1))))

\* what the batched mploc call computes for the target numbered i of a
\* level: the translated multipoles of lists[starts_on_lvl[i]:starts_on_lvl[i+1]]
MplocRow(w, mpoles, sview, lev, starts_on_lvl, lists, i) ==
    FoldSeq(LAMBDA acc, src_ibox :
                VecAdd(acc, Translate(w,
                    GetRow(mpoles, sview, src_ibox - sview.box_start),
                    At(w.level_nterms, lev))),
            Fill(NCoeffs(w, At(w.level_nterms, lev)), 0),
            PySlice(lists, At(starts_on_lvl, i), At(starts_on_lvl, i + 1)))

\* the source boxes the batched call of a level reads
MplocSources(starts_on_lvl, lists) ==
    { At(lists, j) : j \in At(starts_on_lvl, 0)..(PyIndex(starts_on_lvl, -1) - 1) }

\* body of the level loop of multipole_to_local
MultipoleToLocalLevel(w, level_start_nrs, target_or_target_parent_boxes, starts, lists, mpoles, fail, st, lev) ==
    LET ls == PySlice(level_start_nrs, lev, lev + 2)
        lstart == ls[1]
        lstop  == ls[2]
        starts_on_lvl == PySlice(starts, lstart, lstop + 1)
        sv == multipole_expansions_view(w, mpoles, lev)
        tv == local_expansions_view(w, st.buf, lev)
        ntgt_boxes   == lstop - lstart
        tgt_ibox_vec == PySlice(target_or_target_parent_boxes, lstart, lstop)
        nsrc_boxes_per_tgt_box ==
            [i \in 1..ntgt_boxes |->
                At(starts, lstart + i) - At(starts, lstart + i - 1)]
        nsrc_boxes   == SeqSum(nsrc_boxes_per_tgt_box)
        ier   == BatchStatus(st, fail, nsrc_boxes_per_tgt_box)
        raise == TranslationRaises(w, ier)
        called == Record(st, KernelCall("mploc", lev, -1, -1,
                             MplocSources(starts_on_lvl, lists),
                             IF raise THEN {}
                             ELSE {tgt_ibox_vec[i] : i \in 1..ntgt_boxes},
                             nsrc_boxes, ier))
    IN  IF st.err # "none" THEN st
        ELSE IF Len(ls) # 2 THEN Abort(st, "ValueError")
        ELSE IF lstart = lstop THEN st
        ELSE IF sv.err # "none" THEN Abort(st, sv.err)
        ELSE IF tv.err # "none" THEN Abort(st, tv.err)
        ELSE IF raise THEN Abort(called, "RuntimeError")
        ELSE [ called EXCEPT !.buf =
                 FoldSeq(LAMBDA buf, i :
                             AddRow(buf, tv.val, At(tgt_ibox_vec, i) - tv.val.box_start,
                                    MplocRow(w, mpoles, sv.val, lev,
                                             starts_on_lvl, lists, i)),
                         st.buf, PyRange(0, ntgt_boxes, 1)) ]

multipole_to_local(w, level_start_nrs, target_or_target_parent_boxes, starts, lists, mpoles, fail) ==
    LET local_exps_0 == local_expansion_zeros(w)
    IN  IF local_exps_0.err # "none" THEN Abort(PassStart(<<>>), local_exps_0.err)
        ELSE FoldSeq(LAMBDA st, lev :
                         MultipoleToLocalLevel(w, level_start_nrs,
                             target_or_target_parent_boxes, starts, lists,
                             mpoles, fail, st, lev),
                     PassStart(local_exps_0.val), PyRange(0, w.tree.nlevels, 1))

\* body of the source loop of eval_multipoles; acc is tgt_pot
EvalMultipolesSource(w, sview, isrc_level, tgt_ibox, tgt_pslice, mpoles, fail, sa, src_ibox) ==
    LET ier     == KernelStatus(sa.st, fail, 1)
        row     == src_ibox - sview.box_start
        tmp_pot == EvalExpansion(GetRow(mpoles, sview, row),
                                 tgt_pslice.stop - tgt_pslice.start)
        called  == Record(sa.st, KernelCall("mpeval", isrc_level, tgt_ibox, src_ibox,
                              {src_ibox}, {}, 1, ier))
    IN  IF sa.st.err # "none" THEN sa
        ELSE IF ~RowOk(sview, row) THEN [sa EXCEPT !.st = Abort(@, "IndexError")]
        ELSE IF ExpnEvalRaises(w, ier)
        THEN [sa EXCEPT !.st = Abort(called, "RuntimeError")]
        ELSE [st |-> called, acc |-> VecAdd(sa.acc, tmp_pot)]

\* body of the target loop of eval_multipoles
EvalMultipolesTarget(w, sview, isrc_level, target_boxes, ssn, mpoles, fail, st, itgt_box) ==
    LET tgt_ibox   == At(target_boxes, itgt_box)
        tgt_pslice == _get_target_slice(w.tree, tgt_ibox)
        se == PySlice(ssn.starts, itgt_box, itgt_box + 2)
        sa == FoldSeq(LAMBDA a, src_ibox :
                          EvalMultipolesSource(w, sview, isrc_level, tgt_ibox,
                              tgt_pslice, mpoles, fail, a, src_ibox),
                      [st |-> st, acc |-> Fill(tgt_pslice.stop - tgt_pslice.start, 0)],
                      PySlice(ssn.lists, se[1], se[2]))
    IN  IF st.err # "none" THEN st
        ELSE IF EmptyRange(tgt_pslice) THEN st
        ELSE IF Len(se) # 2 THEN Abort(st, "ValueError")
        ELSE IF sa.st.err # "none" THEN sa.st
        ELSE [ Note(sa.st, OutputUpdate(tgt_ibox, tgt_pslice))
               EXCEPT !.buf = add_potgrad_onto_output(st.buf, tgt_pslice, sa.acc) ]

\* body of the source-level loop of eval_multipoles
EvalMultipolesLevel(w, target_boxes, sep_smaller_nonsiblings_by_level, mpoles, fail, st, isrc_level) ==
    LET ssn == At(sep_smaller_nonsiblings_by_level, isrc_level)
        sv  == multipole_expansions_view(w, mpoles, isrc_level)
    IN  IF st.err # "none" THEN st
        ELSE IF sv.err # "none" THEN Abort(st, sv.err)
        ELSE FoldSeq(LAMBDA s, itgt_box :
                         EvalMultipolesTarget(w, sv.val, isrc_level, target_boxes,
                                              ssn, mpoles, fail, s, itgt_box),
                     st, PyRange(0, Len(target_boxes), 1))

eval_multipoles(w, level_start_target_box_nrs, target_boxes, sep_smaller_nonsiblings_by_level, mpoles, fail) ==
    IF ~EvalRoutineKnown(w) THEN Abort(PassStart(output_zeros(w)), "ValueError")
    ELSE FoldSeq(LAMBDA st, isrc_level :
                     EvalMultipolesLevel(w, target_boxes,
                         sep_smaller_nonsiblings_by_level, mpoles, fail, st, isrc_level),
                 PassStart(output_zeros(w)),
                 PyRange(0, Len(sep_smaller_nonsiblings_by_level), 1))

\* the source loop keeping the last contribution only: contrib = mpole.T
FormLocalsSource_Last(w, lev, tgt_ibox, src_weights, fail, sa, src_ibox) ==
    LET src_pslice == _get_source_slice(w.tree, src_ibox)
        charge == PySlice(src_weights, src_pslice.start, src_pslice.stop)
        ier    == KernelStatus(sa.st, fail, 1)
        mpole  == FormExpansion(w, charge, At(w.level_nterms, lev))
        called == Record(sa.st, KernelCall("formta", lev, tgt_ibox, src_ibox, {}, {},
                             Len(charge), ier))
    IN  IF sa.st.err # "none" THEN sa
        ELSE IF EmptyRange(src_pslice) THEN sa
        ELSE IF StatusFatal(ier[1])
        THEN [sa EXCEPT !.st = Abort(called, "RuntimeError")]
        ELSE [st |-> called, acc |-> mpole]

\* body of the source loop of form_locals; acc is contrib, <<0>> the scalar 0
FormLocalsSource(w, lev, tgt_ibox, src_weights, fail, sa, src_ibox) ==
    LET src_pslice == _get_source_slice(w.tree, src_ibox)
        charge == PySlice(src_weights, src_pslice.start, src_pslice.stop)
        ier    == KernelStatus(sa.st, fail, 1)
        mpole  == FormExpansion(w, charge, At(w.level_nterms, lev))
        called == Record(sa.st, KernelCall("formta", lev, tgt_ibox, src_ibox, {}, {},
                             Len(charge), ier))
    IN  IF sa.st.err # "none" THEN sa
        ELSE IF EmptyRange(src_pslice) THEN sa
        ELSE IF StatusFatal(ier[1])
        THEN [sa EXCEPT !.st = Abort(called, "RuntimeError")]
        ELSE [ st  |-> called,
               acc |-> [k \in 1..Len(mpole) |-> Coeff(sa.acc, k) + mpole[k]] ]

\* how form_locals puts contrib into the target row: `view[row] = contrib`
StoreContrib(buf, view, row, contrib) == SetRow(buf, view, row, contrib)

\* the target loop reading starts at the position within the level
FormLocalsTarget_LevelIndex(w, tview, lev, lev_start, target_or_target_parent_boxes, starts, lists, src_weights, fail, st, itgt_box) ==
    LET tgt_ibox == At(target_or_target_parent_boxes, lev_start + itgt_box)
        se == PySlice(starts, itgt_box, itgt_box + 2)
        sa == FoldSeq(LAMBDA a, src_ibox :
                          FormLocalsSource(w, lev, tgt_ibox, src_weights, fail,
                                           a, src_ibox),
                      [st |-> st, acc |-> <<0>>],
                      PySlice(lists, se[1], se[2]))
        row == tgt_ibox - tview.box_start
    IN  IF st.err # "none" THEN st
        ELSE IF Len(se) # 2 THEN Abort(st, "ValueError")
        ELSE IF sa.st.err # "none" THEN sa.st
        ELSE IF ~RowOk(tview, row) THEN Abort(sa.st, "IndexError")
        ELSE IF ~FitsRow(tview, sa.acc) THEN Abort(sa.st, "ValueError")
        ELSE [ Note(sa.st, RowStore(lev, tgt_ibox))
               EXCEPT !.buf = StoreContrib(sa.st.buf, tview, row, sa.acc) ]

\* body of the target loop of form_locals
FormLocalsTarget(w, tview, lev, lev_start, target_or_target_parent_boxes, starts, lists, src_weights, fail, st, itgt_box) ==
    LET tgt_ibox == At(target_or_target_parent_boxes, lev_start + itgt_box)
        se == PySlice(starts, lev_start + itgt_box, lev_start + itgt_box + 2)
        sa == FoldSeq(LAMBDA a, src_ibox :
                          FormLocalsSource(w, lev, tgt_ibox, src_weights, fail,
                                           a, src_ibox),
                      [st |-> st, acc |-> <<0>>],
                      PySlice(lists, se[1], se[2]))
        row == tgt_ibox - tview.box_start
    IN  IF st.err # "none" THEN st
        ELSE IF Len(se) # 2 THEN Abort(st, "ValueError")
        ELSE IF sa.st.err # "none" THEN sa.st
        ELSE IF ~RowOk(tview, row) THEN Abort(sa.st, "IndexError")
        ELSE IF ~FitsRow(tview, sa.acc) THEN Abort(sa.st, "ValueError")
        ELSE [ Note(sa.st, RowStore(lev, tgt_ibox))
               EXCEPT !.buf = StoreContrib(sa.st.buf, tview, row, sa.acc) ]

\* body of the level loop of form_locals
FormLocalsLevel(w, level_start_nrs, target_or_target_parent_boxes, starts, lists, src_weights, fail, st, lev) ==
    LET ls == PySlice(level_start_nrs, lev, lev + 2)
        tv == local_expansions_view(w, st.buf, lev)
    IN  IF st.err # "none" THEN st
        ELSE IF Len(ls) # 2 THEN Abort(st, "ValueError")
        ELSE IF ls[1] = ls[2] THEN st
        ELSE IF tv.err # "none" THEN Abort(st, tv.err)
        ELSE FoldSeq(LAMBDA s, itgt_box :
                         FormLocalsTarget(w, tv.val, lev, ls[1],
                             target_or_target_parent_boxes, starts, lists,
                             src_weights, fail, s, itgt_box),
                     st, PyRange(0, ls[2] - ls[1], 1))

form_locals(w, level_start_nrs, target_or_target_parent_boxes, starts, lists, src_weights, fail) ==
    LET local_exps_0 == local_expansion_zeros(w)
    IN  IF local_exps_0.err # "none" THEN Abort(PassStart(<<>>), local_exps_0.err)
        ELSE FoldSeq(LAMBDA st, lev :
                         FormLocalsLevel(w, level_start_nrs,
                             target_or_target_parent_boxes, starts, lists,
                             src_weights, fail, st, lev),
                     PassStart(local_exps_0.val), PyRange(0, w.tree.nlevels, 1))

\* the target levels refine_locals walks: range(1, nlevels)
RefineTargetLevels_Descending(nlevels) == PyRange(nlevels - 1, 0, -1)

RefineTargetLevels(nlevels) == PyRange(1, nlevels, 1)

\* body of the box loop of refine_locals
RefineBox(w, sview, tview, target_lev, fail, st, tgt_ibox) ==
    LET src_ibox == At(w.tree.box_parent_ids, tgt_ibox)
        ier  == KernelStatus(st, fail, 1)
        srow == src_ibox - sview.box_start
        trow == tgt_ibox - tview.box_start
        tmp_loc_exp == Translate(w, GetRow(st.buf, sview, srow),
                                 At(w.level_nterms, target_lev))
        raise  == TranslationRaises(w, ier)
        stored == ~raise /\ RowOk(tview, trow) /\ FitsRow(tview, tmp_loc_exp)
        called == Record(st, KernelCall("locloc", target_lev, tgt_ibox, src_ibox, {src_ibox},
                             IF stored THEN {tgt_ibox} ELSE {}, 1, ier))
    IN  IF st.err # "none" THEN st
        ELSE IF ~RowOk(sview, srow) THEN Abort(st, "IndexError")
        ELSE IF raise THEN Abort(called, "RuntimeError")
        ELSE IF ~RowOk(tview, trow) THEN Abort(called, "IndexError")
        ELSE IF ~FitsRow(tview, tmp_loc_exp) THEN Abort(called, "ValueError")
        ELSE [called EXCEPT !.buf = AddRow(st.buf, tview, trow, tmp_loc_exp)]

\* body of the level loop of refine_locals
RefineLevel(w, level_start_nrs, target_or_target_parent_boxes, fail, st, target_lev) ==
    LET ss == PySlice(level_start_nrs, target_lev, target_lev + 2)
        source_lev == target_lev - 1
        sv == local_expansions_view(w, st.buf, source_lev)
        tv == local_expansions_view(w, st.buf, target_lev)
    IN  IF st.err # "none" THEN st
        ELSE IF Len(ss) # 2 THEN Abort(st, "ValueError")
        ELSE IF sv.err # "none" THEN Abort(st, sv.err)
        ELSE IF tv.err # "none" THEN Abort(st, tv.err)
        ELSE FoldSeq(LAMBDA s, tgt_ibox :
                         RefineBox(w, sv.val, tv.val, target_lev, fail, s, tgt_ibox),
                     st, PySlice(target_or_target_parent_boxes, ss[1], ss[2]))

\* refine_locals works in place on the buffer it is given and returns it
refine_locals(w, level_start_nrs, target_or_target_parent_boxes, locals, fail) ==
    FoldSeq(LAMBDA st, target_lev :
                RefineLevel(w, level_start_nrs, target_or_target_parent_boxes,
                            fail, st, target_lev),
            PassStart(locals), RefineTargetLevels(w.tree.nlevels))

\* body of the box loop of eval_locals
EvalLocalsBox(w, sview, lev, locals, fail, st, tgt_ibox) ==
    LET tgt_pslice == _get_target_slice(w.tree, tgt_ibox)
        ier     == KernelStatus(st, fail, 1)
        row     == tgt_ibox - sview.box_start
        tmp_pot == EvalExpansion(GetRow(locals, sview, row),
                                 tgt_pslice.stop - tgt_pslice.start)
        called  == Record(st, KernelCall("taeval", lev, tgt_ibox, tgt_ibox, {tgt_ibox}, {},
                              tgt_pslice.stop - tgt_pslice.start, ier))
    IN  IF st.err # "none" THEN st
        ELSE IF EmptyRange(tgt_pslice) THEN st
        ELSE IF ~RowOk(sview, row) THEN Abort(st, "IndexError")
        ELSE IF ExpnEvalRaises(w, ier) THEN Abort(called, "RuntimeError")
        ELSE [ Note(called, OutputUpdate(tgt_ibox, tgt_pslice))
               EXCEPT !.buf = add_potgrad_onto_output(st.buf, tgt_pslice, tmp_pot) ]

\* body of the level loop of eval_locals
EvalLocalsLevel(w, level_start_target_box_nrs, target_boxes, locals, fail, st, lev) ==
    LET ss == PySlice(level_start_target_box_nrs, lev, lev + 2)
        sv == local_expansions_view(w, locals, lev)
    IN  IF st.err # "none" THEN st
        ELSE IF Len(ss) # 2 THEN Abort(st, "ValueError")
        ELSE IF ss[1] = ss[2] THEN st
        ELSE IF sv.err # "none" THEN Abort(st, sv.err)
        ELSE FoldSeq(LAMBDA s, tgt_ibox :
                         EvalLocalsBox(w, sv.val, lev, locals, fail, s, tgt_ibox),
                     st, PySlice(target_boxes, ss[1], ss[2]))

eval_locals(w, level_start_target_box_nrs, target_boxes, locals, fail) ==
    IF ~EvalRoutineKnown(w) THEN Abort(PassStart(output_zeros(w)), "ValueError")
    ELSE FoldSeq(LAMBDA st, lev :
                     EvalLocalsLevel(w, level_start_target_box_nrs, target_boxes,
                                     locals, fail, st, lev),
                 PassStart(output_zeros(w)), PyRange(0, w.tree.nlevels, 1))

\* ------------------------------------------------------------------------
\* Input domains
\* ------------------------------------------------------------------------

Patterns == (0..MaxPerBox) \X (0..MaxPerBox)

TreeShapes ==
    { sh \in (1..MaxLevels) \X (0..MaxFull) \X BOOLEAN :
        /\ sh[2] <= sh[1] - 1
        /\ (sh[3] => sh[1] >= 2) }

\* tree.dimensions; 2 and 3 are the supported ones
DimValues == {1, 2, 3}

\* helmholtz_k: 0 selects Laplace, anything else Helmholtz
HelmholtzValues == {0, 2}

OptOrders == {<<>>} \cup {<<n>> : n \in 0..MaxOrder}

Policies ==
    { [lo |-> lo, hi |-> hi, cut |-> cut] :
        lo \in 0..MaxOrder, hi \in 0..MaxOrder, cut \in {2} }

OptPolicies == {<<>>} \cup {<<p>> : p \in Policies}

\* levels a view may be asked for, in and out of range
ViewLevels == (-(MaxLevels + 2))..(MaxLevels + 1)

NoRet == [fn |-> "none", err |-> "none", val |-> <<>>]

\* ------------------------------------------------------------------------
\* Specification SpecStorage: construct a wrangler, then call its storage
\* helpers
\* ------------------------------------------------------------------------

InitStorage ==
    /\ \E sh \in TreeShapes, dims \in DimValues :
          tree = MkTree(sh[1], sh[2], sh[3], dims, <<0, 1>>, <<0, 1>>)
    /\ trav = <<>>
    /\ wrangler = BlankWrangler
    /\ pc = "start"
    /\ mpole_exps = <<>>
    /\ local_exps = <<>>
    /\ potentials = <<>>
    /\ trace = <<>>
    /\ ret = NoRet
    /\ workers = <<>>

Construct ==
    /\ pc = "start"
    /\ \E k \in HelmholtzValues, pol \in OptPolicies, nterms \in OptOrders :
          LET w == WranglerInit(tree, k, pol, nterms)
          IN  /\ wrangler' = w
              /\ pc' = IF w.raised = "none" THEN "constructed" ELSE "construct_failed"
              /\ ret' = [fn |-> "__init__", err |-> w.raised,
                         val |-> <<pol, nterms>>]
    /\ UNCHANGED <<workers, tree, trav, mpole_exps, local_exps, potentials, trace>>

Called(fn, arg, r) == [fn |-> fn, arg |-> arg, err |-> r.err, val |-> r.val]

CallExpansionShape ==
    /\ pc = "constructed"
    /\ pc' = "called"
    /\ \E nterms \in 0..MaxOrder :
          ret' = Called("expansion_shape", nterms, expansion_shape(wrangler, nterms))
    /\ UNCHANGED <<workers, tree, trav, wrangler, mpole_exps, local_exps, potentials, trace>>

CallLevelStarts ==
    /\ pc = "constructed"
    /\ pc' = "called"
    /\ ret' = Called("multipole_expansions_level_starts", 0,
                     multipole_expansions_level_starts(wrangler))
    /\ UNCHANGED <<workers, tree, trav, wrangler, mpole_exps, local_exps, potentials, trace>>

CallZeros ==
    /\ pc = "constructed"
    /\ pc' = "called"
    /\ \E kind \in {"multipole", "local"} :
         LET z == IF kind = "multipole" THEN multipole_expansion_zeros(wrangler)
                  ELSE local_expansion_zeros(wrangler)
         IN  /\ ret' = Called(kind \o "_expansion_zeros", 0, z)
             /\ mpole_exps' = IF kind = "multipole" THEN z.val ELSE mpole_exps
             /\ local_exps' = IF kind = "local" THEN z.val ELSE local_exps
    /\ UNCHANGED <<workers, tree, trav, wrangler, potentials, trace>>

CallView ==
    /\ pc = "constructed"
    /\ pc' = "called"
    /\ \E level \in ViewLevels, kind \in {"multipole", "local"} :
         LET z == multipole_expansion_zeros(wrangler)
             v == IF kind = "multipole"
                  THEN multipole_expansions_view(wrangler, z.val, level)
                  ELSE local_expansions_view(wrangler, z.val, level)
         IN  ret' = Called(kind \o "_expansions_view", level, v)
    /\ UNCHANGED <<workers, tree, trav, wrangler, mpole_exps, local_exps, potentials, trace>>

CallFinalize ==
    /\ pc = "constructed"
    /\ pc' = "called"
    /\ ret' = Called("finalize_potentials", 0,
                     finalize_potentials(wrangler, Fill(tree.ntargets, 0)))
    /\ UNCHANGED <<workers, tree, trav, wrangler, mpole_exps, local_exps, potentials, trace>>

NextStorage ==
    \/ Construct
    \/ CallExpansionShape
    \/ CallLevelStarts
    \/ CallZeros
    \/ CallView
    \/ CallFinalize

SpecStorage == InitStorage /\ [][NextStorage]_vars

\* ------------------------------------------------------------------------
\* Specification SpecReorder: a particle vector reordered into tree order
\* and back, for a tree whose targets are its sources
\* ------------------------------------------------------------------------

\* the permutations of 0..n-1, as sequences
Perms(n) ==
    { s \in [1..n -> 0..(n - 1)] : \A i, j \in 1..n : s[i] = s[j] => i = j }

InversePerm(s) == [j \in 1..Len(s) |-> (CHOOSE i \in 1..Len(s) : s[i] = j - 1) - 1]

InitReorder ==
    /\ \E n \in 1..MaxParticles :
         \E usi \in Perms(n), x \in [1..n -> 0..(n - 1)] :
           /\ tree = [ nsources |-> n, ntargets |-> n,
                       user_source_ids |-> usi,
                       sorted_target_ids |-> InversePerm(usi) ]
           /\ potentials = x
    /\ trav = <<>>
    /\ wrangler = BlankWrangler
    /\ pc = "start"
    /\ mpole_exps = <<>>
    /\ local_exps = <<>>
    /\ trace = <<>>
    /\ ret = NoRet
    /\ workers = <<>>

ReorderToTree ==
    /\ pc = "start"
    /\ pc' = "tree_order"
    /\ ret' = [fn |-> "reorder_sources", err |-> "none",
               val |-> reorder_sources(tree, potentials)]
    /\ UNCHANGED <<workers, tree, trav, wrangler, mpole_exps, local_exps, potentials, trace>>

ReorderToUser ==
    /\ pc = "tree_order"
    /\ pc' = "user_order"
    /\ ret' = [fn |-> "reorder_potentials", err |-> "none",
               val |-> reorder_potentials(tree, ret.val)]
    /\ UNCHANGED <<workers, tree, trav, wrangler, mpole_exps, local_exps, potentials, trace>>

NextReorder == ReorderToTree \/ ReorderToUser

SpecReorder == InitReorder /\ [][NextReorder]_vars

\* ------------------------------------------------------------------------
\* Specification SpecRef: the driver runs the constant-one wrangler through
\* the passes in the fixed order, all source weights 1, summing the partial
\* outputs
\* ------------------------------------------------------------------------

\* well_sep_is_n_away of the input traversals
AwayValues == {0, 1, 2}

Ones(n) == Fill(n, 1)

InitRef ==
    /\ \E sh \in TreeShapes, spat \in Patterns, tpat \in Patterns, away \in AwayValues :
          /\ tree = MkTree(sh[1], sh[2], sh[3], 2, spat, tpat)
          /\ trav = MkTraversal(tree, away)
    /\ wrangler = BlankWrangler
    /\ pc = "start"
    /\ mpole_exps = <<>>
    /\ local_exps = <<>>
    /\ potentials = <<>>
    /\ trace = <<>>
    /\ ret = NoRet
    /\ workers = <<>>

\* the order in which the driver invokes the passes
PassOrder ==
    << "start", "form_multipoles", "coarsen_multipoles", "multipole_to_local",
       "form_locals", "refine_locals", "eval_multipoles", "eval_locals",
       "eval_direct", "finalize_potentials" >>

\* `pass` is the pass that follows `before`
InOrder(before, pass) ==
    \E i \in 1..(Len(PassOrder) - 1) : PassOrder[i] = before /\ PassOrder[i + 1] = pass

\* the driver has done `before` and goes on to `pass`
Ready(before, pass) == pc = before /\ InOrder(before, pass)

\* the driver does a pass that cannot fail
Advance(before, pass) == Ready(before, pass) /\ pc' = pass

RefFormMultipoles ==
    /\ Advance("start", "form_multipoles")
    /\ mpole_exps' = Ref_form_multipoles(tree, trav.level_start_source_box_nrs,
                         trav.source_boxes, Ones(tree.nsources))
    /\ potentials' = Ref_potential_zeros(tree)
    /\ UNCHANGED <<workers, tree, trav, wrangler, local_exps, trace, ret>>

RefCoarsenMultipoles ==
    /\ Advance("form_multipoles", "coarsen_multipoles")
    /\ mpole_exps' = Ref_coarsen_multipoles(tree,
                         trav.level_start_source_parent_box_nrs,
                         trav.source_parent_boxes, mpole_exps)
    /\ UNCHANGED <<workers, tree, trav, wrangler, local_exps, potentials, trace, ret>>

RefMultipoleToLocal ==
    /\ Advance("coarsen_multipoles", "multipole_to_local")
    /\ local_exps' = Ref_multipole_to_local(tree,
                         trav.level_start_target_or_target_parent_box_nrs,
                         trav.target_or_target_parent_boxes,
                         trav.from_sep_siblings.starts, trav.from_sep_siblings.lists,
                         mpole_exps)
    /\ UNCHANGED <<workers, tree, trav, wrangler, mpole_exps, potentials, trace, ret>>

RefFormLocals ==
    /\ Advance("multipole_to_local", "form_locals")
    /\ local_exps' = VecAdd(local_exps,
                         Ref_form_locals(tree,
                             trav.level_start_target_or_target_parent_box_nrs,
                             trav.target_or_target_parent_boxes,
                             trav.from_sep_bigger.starts, trav.from_sep_bigger.lists,
                             Ones(tree.nsources)))
    /\ UNCHANGED <<workers, tree, trav, wrangler, mpole_exps, potentials, trace, ret>>

RefRefineLocals ==
    /\ Advance("form_locals", "refine_locals")
    /\ local_exps' = Ref_refine_locals(tree,
                         trav.level_start_target_or_target_parent_box_nrs,
                         trav.target_or_target_parent_boxes, local_exps)
    /\ UNCHANGED <<workers, tree, trav, wrangler, mpole_exps, potentials, trace, ret>>

RefEvalMultipoles ==
    /\ Advance("refine_locals", "eval_multipoles")
    /\ potentials' = VecAdd(potentials,
                         Ref_eval_multipoles(tree,
                             trav.target_boxes_sep_smaller_by_source_level,
                             trav.from_sep_smaller_by_level, mpole_exps))
    /\ UNCHANGED <<workers, tree, trav, wrangler, mpole_exps, local_exps, trace, ret>>

RefEvalLocals ==
    /\ Advance("eval_multipoles", "eval_locals")
    /\ potentials' = VecAdd(potentials,
                         Ref_eval_locals(tree, trav.level_start_target_box_nrs,
                             trav.target_boxes, local_exps))
    /\ UNCHANGED <<workers, tree, trav, wrangler, mpole_exps, local_exps, trace, ret>>

RefEvalDirect ==
    /\ Advance("eval_locals", "eval_direct")
    /\ potentials' = VecAdd(potentials,
                         Ref_eval_direct(tree, trav.target_boxes,
                             trav.neighbor_source_boxes.starts,
                             trav.neighbor_source_boxes.lists, Ones(tree.nsources)))
    /\ UNCHANGED <<workers, tree, trav, wrangler, mpole_exps, local_exps, trace, ret>>

RefFinalizePotentials ==
    /\ Advance("eval_direct", "finalize_potentials")
    /\ potentials' = Ref_finalize_potentials(potentials)
    /\ UNCHANGED <<workers, tree, trav, wrangler, mpole_exps, local_exps, trace, ret>>

NextRef ==
    \/ RefFormMultipoles
    \/ RefCoarsenMultipoles
    \/ RefMultipoleToLocal
    \/ RefFormLocals
    \/ RefRefineLocals
    \/ RefEvalMultipoles
    \/ RefEvalLocals
    \/ RefEvalDirect
    \/ RefFinalizePotentials

SpecRef == InitRef /\ [][NextRef]_vars

\* ------------------------------------------------------------------------
\* Specification SpecFMM: the driver runs an FMMLibExpansionWrangler through
\* the passes in the fixed order; the environment may make one kernel call
\* of a pass return a nonzero status.  trace is the record of the pass that
\* ran last, ret what it returned or raised.
\* ------------------------------------------------------------------------

\* per-level orders used with the passes
PassPolicies == { [lo |-> 1, hi |-> 1, cut |-> 2], [lo |-> 0, hi |-> MaxOrder, cut |-> 2] }

\* the environment's choices of a failing kernel call: none, or call
\* number c of the pass, at entry c % 2 of a batch
Fails == {[call |-> c, entry |-> c % 2] : c \in 0..MaxFailCall}

\* tree shapes, each once (0 and 1 full levels give the same tree)
PassTreeShapes == {sh \in TreeShapes : sh[1] = 1 \/ sh[2] >= 1}

\* particle patterns: any for the sources, targets in every box or in
\* every second box
PassPatterns == {pp \in Patterns \X Patterns : pp[2][2] = 1}

InitFMM ==
    /\ \E sh \in PassTreeShapes, pp \in PassPatterns, dims \in {2, 3} :
          /\ tree = MkTree(sh[1], sh[2], sh[3], dims, pp[1], pp[2])
          /\ trav = MkTraversal(tree, 1)
    /\ \E k \in HelmholtzValues, pol \in PassPolicies :
          wrangler = WranglerInit(tree, k, <<pol>>, <<>>)
    /\ pc = "start"
    /\ mpole_exps = <<>>
    /\ local_exps = <<>>
    /\ potentials = <<>>
    /\ trace = <<>>
    /\ ret = NoRet
    /\ workers = <<>>

\* the driver takes the result of a pass, or stops on its exception
Returned(pass, st) ==
    /\ pc' = IF st.err = "none" THEN pass ELSE "aborted"
    /\ trace' = st.trace
    /\ ret' = [fn |-> pass, err |-> st.err,
               val |-> IF st.err = "none" THEN st.buf ELSE <<>>]

\* a buffer of the driver after a pass: the new one if the pass returned
Taken(st, new, old) == IF st.err = "none" THEN new ELSE old

FormMultipoles ==
    /\ Ready("start", "form_multipoles")
    /\ \E fail \in Fails :
         LET st == form_multipoles(wrangler, trav.level_start_source_box_nrs,
                       trav.source_boxes, Ones(tree.nsources), fail)
         IN  /\ Returned("form_multipoles", st)
             /\ mpole_exps' = Taken(st, st.buf, mpole_exps)
             /\ potentials' = Taken(st, output_zeros(wrangler), potentials)
    /\ UNCHANGED <<workers, tree, trav, wrangler, local_exps>>

CoarsenMultipoles ==
    /\ Ready("form_multipoles", "coarsen_multipoles")
    /\ \E fail \in Fails :
         LET st == coarsen_multipoles(wrangler,
                       trav.level_start_source_parent_box_nrs,
                       trav.source_parent_boxes, mpole_exps, fail)
         IN  /\ Returned("coarsen_multipoles", st)
             \* in place: what was written before an exception stays written
             /\ mpole_exps' = st.buf
    /\ UNCHANGED <<workers, tree, trav, wrangler, local_exps, potentials>>

MultipoleToLocal ==
    /\ Ready("coarsen_multipoles", "multipole_to_local")
    /\ \E fail \in Fails :
         LET st == multipole_to_local(wrangler,
                       trav.level_start_target_or_target_parent_box_nrs,
                       trav.target_or_target_parent_boxes,
                       trav.from_sep_siblings.starts, trav.from_sep_siblings.lists,
                       mpole_exps, fail)
         IN  /\ Returned("multipole_to_local", st)
             /\ local_exps' = Taken(st, st.buf, local_exps)
    /\ UNCHANGED <<workers, tree, trav, wrangler, mpole_exps, potentials>>

FormLocals ==
    /\ Ready("multipole_to_local", "form_locals")
    /\ \E fail \in Fails :
         LET st == form_locals(wrangler,
                       trav.level_start_target_or_target_parent_box_nrs,
                       trav.target_or_target_parent_boxes,
                       trav.from_sep_bigger.starts, trav.from_sep_bigger.lists,
                       Ones(tree.nsources), fail)
         IN  /\ Returned("form_locals", st)
             /\ local_exps' = Taken(st, VecAdd(local_exps, st.buf), local_exps)
    /\ UNCHANGED <<workers, tree, trav, wrangler, mpole_exps, potentials>>

RefineLocals ==
    /\ Ready("form_locals", "refine_locals")
    /\ \E fail \in Fails :
         LET st == refine_locals(wrangler,
                       trav.level_start_target_or_target_parent_box_nrs,
                       trav.target_or_target_parent_boxes, local_exps, fail)
         IN  /\ Returned("refine_locals", st)
             /\ local_exps' = st.buf
    /\ UNCHANGED <<workers, tree, trav, wrangler, mpole_exps, potentials>>

EvalMultipoles ==
    /\ Ready("refine_locals", "eval_multipoles")
    /\ \E fail \in Fails :
         LET st == eval_multipoles(wrangler, trav.level_start_target_box_nrs,
                       trav.target_boxes, trav.from_sep_smaller_by_level,
                       mpole_exps, fail)
         IN  /\ Returned("eval_multipoles", st)
             /\ potentials' = Taken(st, VecAdd(potentials, st.buf), potentials)
    /\ UNCHANGED <<workers, tree, trav, wrangler, mpole_exps, local_exps>>

EvalLocals ==
    /\ Ready("eval_multipoles", "eval_locals")
    /\ \E fail \in Fails :
         LET st == eval_locals(wrangler, trav.level_start_target_box_nrs,
                       trav.target_boxes, local_exps, fail)
         IN  /\ Returned("eval_locals", st)
             /\ potentials' = Taken(st, VecAdd(potentials, st.buf), potentials)
    /\ UNCHANGED <<workers, tree, trav, wrangler, mpole_exps, local_exps>>

EvalDirect ==
    /\ Ready("eval_locals", "eval_direct")
    /\ \E fail \in Fails :
         LET st == eval_direct(wrangler, trav.target_boxes,
                       trav.neighbor_source_boxes.starts,
                       trav.neighbor_source_boxes.lists, Ones(tree.nsources), fail)
         IN  /\ Returned("eval_direct", st)
             /\ potentials' = Taken(st, VecAdd(potentials, st.buf), potentials)
    /\ UNCHANGED <<workers, tree, trav, wrangler, mpole_exps, local_exps>>

NextFMM ==
    \/ FormMultipoles
    \/ CoarsenMultipoles
    \/ MultipoleToLocal
    \/ FormLocals
    \/ RefineLocals
    \/ EvalMultipoles
    \/ EvalLocals
    \/ EvalDirect

SpecFMM == InitFMM /\ [][NextFMM]_vars

\* ------------------------------------------------------------------------
\* Properties
\* ------------------------------------------------------------------------

\* C2: when sorted_target_ids is the inverse permutation of user_source_ids,
\* reordering a particle vector into tree order and back to user order
\* returns the vector it started from, entry by entry.
C2_ReorderRoundTrip ==
    pc = "user_order" =>
        /\ Len(ret.val) = Len(potentials)
        /\ \A i \in 1..Len(potentials) : ret.val[i] = potentials[i]

\* a round trip through a permutation that is not its own inverse, of a
\* vector with pairwise different entries
C2_Witness ==
    /\ pc = "user_order"
    /\ tree.nsources >= 3
    /\ tree.user_source_ids # tree.sorted_target_ids
    /\ \A i, j \in 1..Len(potentials) : potentials[i] = potentials[j] => i = j

\* the boxes of the tree at a level, counted from the boxes' own levels
BoxesAtLevel(t, lev) == Cardinality({i \in 1..t.nboxes : t.box_levels[i] = lev})

\* C3: the level starts are nlevels+1 offsets, begin at 0, never decrease,
\* and consecutive offsets differ by (boxes at the level) x (coefficients
\* per box at the level's order); the sizes add up to the last offset.
C3_LevelOffsetPartition ==
    (ret.fn = "multipole_expansions_level_starts" /\ ret.err = "none") =>
        LET starts == ret.val
            size(lev) == BoxesAtLevel(tree, lev)
                         * product(expansion_shape(wrangler,
                                       At(wrangler.level_nterms, lev)).val)
        IN  /\ Len(starts) = tree.nlevels + 1
            /\ At(starts, 0) = 0
            /\ \A lev \in 0..(tree.nlevels - 1) :
                  /\ At(starts, lev) <= At(starts, lev + 1)
                  /\ At(starts, lev + 1) - At(starts, lev) = size(lev)
            /\ SumOver(size, 0..(tree.nlevels - 1)) = At(starts, tree.nlevels)

\* level starts of a tree of four levels whose order varies by level
C3_Witness ==
    /\ ret.fn = "multipole_expansions_level_starts"
    /\ ret.err = "none"
    /\ tree.nlevels >= 4
    /\ At(wrangler.level_nterms, 0) # At(wrangler.level_nterms, 3)
    /\ At(ret.val, 2) > At(ret.val, 1)
    /\ At(ret.val, 4) > At(ret.val, 3)

IsViewCall == ret.fn \in {"multipole_expansions_view", "local_expansions_view"}

\* C8: a view asked for a level outside 0..nlevels-1 always fails with an
\* error and never returns a view.
C8_OutOfRangeLevelIsFatal ==
    (IsViewCall /\ ret.arg \notin 0..(tree.nlevels - 1)) => ret.err # "none"

\* C9 as stated: with a dimensionality other than 2 or 3 the constructor
\* raises.
C9_UnsupportedRejectedAtConstruction ==
    (ret.fn = "__init__" /\ tree.dimensions \notin {2, 3}) => ret.err # "none"

ExactlyOneOrderArg == IsNone(ret.val[1]) # IsNone(ret.val[2])

\* C9 amended: with a dimensionality other than 2 or 3 the constructor
\* returns normally (it raises only for its order arguments), and the error
\* is raised later: by expansion_shape and with it the level starts, the
\* zero buffers and the views, and by finalize_potentials.
C9_UnsupportedRejectedOnFirstUse ==
    tree.dimensions \notin {2, 3} =>
        /\ (ret.fn = "__init__" /\ ExactlyOneOrderArg) =>
              (ret.err = "none" /\ pc = "constructed")
        /\ ret.fn = "expansion_shape" => ret.err = "ValueError"
        /\ ret.fn = "finalize_potentials" => ret.err = "NotImplementedError"
        /\ ret.fn \in {"multipole_expansions_level_starts",
                       "multipole_expansion_zeros", "local_expansion_zeros",
                       "multipole_expansions_view", "local_expansions_view"}
              => ret.err = "ValueError"

\* a storage helper raising on a wrangler built for a one-dimensional tree
C9_Witness ==
    /\ tree.dimensions = 1
    /\ "dim" \in wrangler.set_fields
    /\ ret.fn = "multipole_expansion_zeros"
    /\ ret.err = "ValueError"

\* C10: with both nterms and fmm_level_to_nterms the constructor raises
\* TypeError with no field of the object set, and nothing can be called on
\* the object; with only nterms, every level's order is nterms.
C10_ConflictingParametersRejected ==
    /\ (ret.fn = "__init__" /\ ~IsNone(ret.val[1]) /\ ~IsNone(ret.val[2])) =>
          /\ ret.err = "TypeError"
          /\ wrangler.set_fields = {}
          /\ pc = "construct_failed"
          /\ ~ENABLED NextStorage
    /\ (ret.fn = "__init__" /\ IsNone(ret.val[1]) /\ ~IsNone(ret.val[2])) =>
          /\ ret.err = "none"
          /\ Len(wrangler.level_nterms) = tree.nlevels
          /\ \A lev \in 0..(tree.nlevels - 1) :
                At(wrangler.level_nterms, lev) = ret.val[2][1]

\* a construction with both order arguments given
C10_Witness ==
    /\ ret.fn = "__init__"
    /\ ~IsNone(ret.val[1])
    /\ ~IsNone(ret.val[2])
    /\ ret.err = "TypeError"

\* the boxes of the subtree of b, b included
RECURSIVE Subtree(_, _)
Subtree(t, b) == {b} \cup UNION {Subtree(t, c) : c \in Children(t, b)}

\* the source boxes whose multipoles a traversal consumes: the entries of
\* the well-separated lists and of the separated-smaller lists
MultipoleSources(tv) ==
    {tv.from_sep_siblings.lists[i] : i \in 1..Len(tv.from_sep_siblings.lists)}
    \cup UNION { {tv.from_sep_smaller_by_level[l].lists[i] :
                      i \in 1..Len(tv.from_sep_smaller_by_level[l].lists)} :
                 l \in 1..Len(tv.from_sep_smaller_by_level) }

\* C1 as stated: after the nine passes every target's potential is the
\* number of sources.
C1_Conservation ==
    pc = "finalize_potentials" =>
        \A i \in 1..tree.ntargets : potentials[i] = tree.nsources

\* C1 amended: the same, for traversals whose multipole-consuming lists
\* name only boxes of level 2 or deeper, or boxes without children.
C1_ConservationBelowCutoff ==
    ( /\ pc = "finalize_potentials"
      /\ \A b \in MultipoleSources(trav) :
            At(tree.box_levels, b) >= 2 \/ IsLeaf(tree, b) ) =>
        \A i \in 1..tree.ntargets : potentials[i] = tree.nsources

\* a finished run on a four-level tree in which a coarsened level-2
\* multipole was translated and every kind of list was used
C1_Witness ==
    /\ pc = "finalize_potentials"
    /\ trav.well_sep_is_n_away = 1
    /\ tree.nlevels >= 4
    /\ tree.nsources >= 3
    /\ tree.ntargets >= 3
    /\ \E b \in MultipoleSources(trav) :
          /\ At(tree.box_levels, b) = 2
          /\ ~IsLeaf(tree, b)
          /\ At(mpole_exps, b) > 0
    /\ trav.from_sep_bigger.lists # <<>>
    /\ \E l \in 1..tree.nlevels : trav.from_sep_smaller_by_level[l].lists # <<>>
    /\ \A i \in 1..tree.ntargets : potentials[i] = tree.nsources

\* the pass that ran last is fn, whether it returned or raised
LastPass(fn) == ret.fn = fn

\* a kernel call that came back with a nonzero status
Failed(ev) == ev.kind = "call" /\ \E e \in 1..Len(ev.ier) : ev.ier[e] # 0

\* the levels at which the calls of the last pass were made, in call order
TraceLevels == [i \in 1..Len(trace) |-> trace[i].lev]

\* no expansion is written after a call of the pass has read it
NoWriteAfterRead ==
    \A i \in 1..Len(trace) : \A j \in (i + 1)..Len(trace) :
        trace[j].wr \cap trace[i].rd = {}

\* C4: coarsen_multipoles makes its calls level by level with the source
\* level never increasing, refine_locals with the target level never
\* decreasing, and in neither pass is an expansion modified after a call
\* of that pass has read it.
C4_CrossLevelOrdering ==
    /\ LastPass("coarsen_multipoles") =>
          /\ \A i \in 1..Len(trace) : \A j \in (i + 1)..Len(trace) :
                trace[i].lev >= trace[j].lev
          /\ \A i \in 1..Len(trace) :
                /\ trace[i].rd = {trace[i].src}
                /\ At(tree.box_levels, trace[i].src) = trace[i].lev
                /\ trace[i].wr \subseteq {At(tree.box_parent_ids, trace[i].src)}
          /\ NoWriteAfterRead
    /\ LastPass("refine_locals") =>
          /\ \A i \in 1..Len(trace) : \A j \in (i + 1)..Len(trace) :
                trace[i].lev <= trace[j].lev
          /\ \A i \in 1..Len(trace) :
                /\ trace[i].rd = {At(tree.box_parent_ids, trace[i].box)}
                /\ At(tree.box_levels, trace[i].box) = trace[i].lev
                /\ trace[i].wr \subseteq {trace[i].box}
          /\ NoWriteAfterRead

\* refine_locals has walked three levels or more, and some call read a
\* parent's local expansion that an earlier call of the pass had written
C4_Witness ==
    /\ LastPass("refine_locals")
    /\ ret.err = "none"
    /\ Cardinality({trace[i].lev : i \in 1..Len(trace)}) >= 3
    /\ \E i \in 1..Len(trace) : \E j \in (i + 1)..Len(trace) :
          trace[i].wr \cap trace[j].rd # {}

SourcesEmpty(b) == EmptyRange(_get_source_slice(tree, b))

TargetsEmpty(b) == EmptyRange(_get_target_slice(tree, b))

\* the multipole coefficients of box b in the buffer form_multipoles returned
ReturnedRow(b) ==
    LET v == multipole_expansions_view(wrangler, ret.val, At(tree.box_levels, b)).val
    IN  GetRow(ret.val, v, b - v.box_start)

\* C5: in form_multipoles, eval_locals, eval_multipoles, eval_direct and
\* form_locals no kernel call is made for an empty source range or an
\* empty target range and no output is updated for an empty target range;
\* a source box without sources has an all-zero multipole after
\* form_multipoles.
C5_EmptyRangeNoOp ==
    ret.fn \in {"form_multipoles", "eval_locals", "eval_multipoles",
                "eval_direct", "form_locals"} =>
        /\ \A i \in 1..Len(trace) :
              /\ trace[i].rout \in {"formmp", "direct", "formta"} =>
                    ~SourcesEmpty(trace[i].src) /\ trace[i].n > 0
              /\ trace[i].rout \in {"taeval", "mpeval", "direct"} =>
                    ~TargetsEmpty(trace[i].box)
              /\ trace[i].kind = "out" => ~TargetsEmpty(trace[i].box)
        /\ (LastPass("form_multipoles") /\ ret.err = "none") =>
              \A k \in 1..Len(trav.source_boxes) :
                  SourcesEmpty(trav.source_boxes[k]) =>
                      \A c \in 1..Len(ReturnedRow(trav.source_boxes[k])) :
                          ReturnedRow(trav.source_boxes[k])[c] = 0

\* eval_direct has run over target boxes with and without targets, and a
\* box with targets had neighbours with and without sources
C5_Witness ==
    /\ LastPass("eval_direct")
    /\ ret.err = "none"
    /\ \E k \in 1..Len(trav.target_boxes) : TargetsEmpty(trav.target_boxes[k])
    /\ \E k \in 1..Len(trav.target_boxes) :
          /\ ~TargetsEmpty(trav.target_boxes[k])
          /\ \E i \in 1..Len(trace) :
                trace[i].rout = "direct" /\ trace[i].box = trav.target_boxes[k]
          /\ \E m \in (trav.neighbor_source_boxes.starts[k] + 1)..
                      trav.neighbor_source_boxes.starts[k + 1] :
                SourcesEmpty(trav.neighbor_source_boxes.lists[m])

\* C6: when a formmp call of form_multipoles or a formta call of
\* form_locals returns a nonzero status, the pass raises, returns no
\* buffer, the failing call is the last call of the pass, and no earlier
\* call of the pass was made for the same boxes.
C6_KernelFailureIsFatal ==
    (LastPass("form_multipoles") \/ LastPass("form_locals")) =>
        \A i \in 1..Len(trace) :
            Failed(trace[i]) =>
                /\ ret.err = "RuntimeError"
                /\ ret.val = <<>>
                /\ pc = "aborted"
                /\ i = Len(trace)
                /\ \A j \in 1..(i - 1) :
                      trace[j].box # trace[i].box \/ trace[j].src # trace[i].src

\* form_locals was ended by the status of a formta call that came after a
\* successful one
C6_Witness ==
    /\ LastPass("form_locals")
    /\ ret.err = "RuntimeError"
    /\ Failed(trace[Len(trace)])
    /\ trace[Len(trace)].rout = "formta"
    /\ \E i \in 1..(Len(trace) - 1) : trace[i].rout = "formta" /\ ~Failed(trace[i])

\* a failed batched call ends multipole_to_local with no buffer
FailedBatchIsFatal ==
    \A i \in 1..Len(trace) :
        Failed(trace[i]) =>
            /\ ret.err = "RuntimeError"
            /\ ret.val = <<>>
            /\ pc = "aborted"
            /\ local_exps = <<>>
            /\ i = Len(trace)

OutputUpdates == {i \in 1..Len(trace) : trace[i].kind = "out"}

\* how often the last pass added onto the output slice of box b
UpdatesOf(b) == Cardinality({i \in OutputUpdates : trace[i].box = b})

\* the output slices of distinct boxes the last pass updated share no target
UpdatedSlicesDisjoint ==
    \A i \in OutputUpdates : \A j \in OutputUpdates :
        trace[i].box # trace[j].box =>
            \/ _get_target_slice(tree, trace[i].box).stop
                  <= _get_target_slice(tree, trace[j].box).start
            \/ _get_target_slice(tree, trace[j].box).stop
                  <= _get_target_slice(tree, trace[i].box).start

\* C11 as stated: in eval_locals, eval_multipoles and eval_direct the
\* output slice of a target box is added to at most once in the pass, and
\* the slices of distinct target boxes do not overlap.
C11_OutputAddedOncePerPass ==
    ret.fn \in {"eval_locals", "eval_multipoles", "eval_direct"} =>
        /\ \A b \in 0..(tree.nboxes - 1) : UpdatesOf(b) <= 1
        /\ UpdatedSlicesDisjoint

\* C11 amended: that holds for eval_locals and eval_direct; eval_multipoles
\* adds onto the slice of a target box with targets once for every source
\* level (nlevels times when it runs to its end); the slices of distinct
\* target boxes never overlap.
C11_OutputAddedOncePerSourceLevel ==
    /\ ret.fn \in {"eval_locals", "eval_direct"} =>
          /\ \A b \in 0..(tree.nboxes - 1) : UpdatesOf(b) <= 1
          /\ UpdatedSlicesDisjoint
    /\ LastPass("eval_multipoles") =>
          /\ \A b \in 0..(tree.nboxes - 1) :
                UpdatesOf(b) <= Len(trav.from_sep_smaller_by_level)
          /\ ret.err = "none" =>
                \A k \in 1..Len(trav.target_boxes) :
                    ~TargetsEmpty(trav.target_boxes[k]) =>
                        UpdatesOf(trav.target_boxes[k]) = tree.nlevels
          /\ UpdatedSlicesDisjoint

\* eval_multipoles ran to its end on a tree of three levels or more and
\* updated the slices of several target boxes
C11_Witness ==
    /\ LastPass("eval_multipoles")
    /\ ret.err = "none"
    /\ tree.nlevels >= 3
    /\ \E b \in 0..(tree.nboxes - 1) : UpdatesOf(b) >= 3
    /\ Cardinality({trace[i].box : i \in OutputUpdates}) >= 2
    /\ \E i \in 1..Len(trace) : trace[i].rout = "mpeval"


\* ---- C12: zero-length kernel calls ----

KernelCalls == {i \in 1..Len(trace) : trace[i].kind = "call"}

\* a kernel call whose particle range, target range or set of pairs is empty
ZeroLengthInput(ev) ==
    \/ ev.n = 0
    \/ /\ ev.rout \in {"direct", "mpeval", "taeval"}
       /\ LET s == _get_target_slice(tree, ev.box) IN s.stop - s.start = 0

\* the levels with at least one target or target parent box
LevelsWithTargetBoxes ==
    {lev \in 0..(tree.nlevels - 1) :
        At(trav.level_start_target_or_target_parent_box_nrs, lev)
            # At(trav.level_start_target_or_target_parent_box_nrs, lev + 1)}

\* C12 as stated: no pass ever invokes a kernel routine on zero-length input,
\* neither for an empty particle range nor for an empty set of interaction
\* pairs, multipole_to_local on a level whose lists are all empty included.
C12_NoZeroLengthKernelCall ==
    \A i \in KernelCalls : ~ZeroLengthInput(trace[i])

\* what the passes do guarantee: every kernel call other than the batched
\* mploc has a non-empty input, and multipole_to_local issues mploc once for
\* every level that has target boxes, whatever the number of pairs
BatchIssuedOncePerLevel ==
    /\ \A i \in KernelCalls :
           trace[i].rout # "mploc" => ~ZeroLengthInput(trace[i])
    /\ (LastPass("multipole_to_local") /\ ret.err = "none") =>
           /\ \A i \in KernelCalls : trace[i].rout = "mploc"
           /\ \A lev \in LevelsWithTargetBoxes :
                  Cardinality({i \in KernelCalls : trace[i].lev = lev}) = 1
           /\ \A i \in KernelCalls : trace[i].lev \in LevelsWithTargetBoxes


\* ------------------------------------------------------------------------
\* Specification SpecWorkers: the per-box iterations of one level of
\* coarsen_multipoles, multipole_to_local, form_locals or refine_locals run
\* as concurrent workers, one per box of the level's box list.  A worker
\* executes the statements of its iteration one at a time: a kernel call
\* reads its input rows, `view[row] += v` is a load of the row followed by
\* a store, `view[row] = v` is a store.  ret.val is the buffer the
\* sequential loop over the same level produces.
\* ------------------------------------------------------------------------

WorkerPasses ==
    {"coarsen_multipoles", "multipole_to_local", "form_locals", "refine_locals"}

\* no kernel call returns a nonzero status
NoFail == [call |-> 0, entry |-> 0]

\* the levels whose box loop a pass runs, in the order of the pass (for
\* coarsen_multipoles the source levels, for refine_locals the target levels)
PassLevels(pass, nlevels) ==
    IF pass = "coarsen_multipoles" THEN CoarsenSourceLevels(nlevels)
    ELSE IF pass = "refine_locals" THEN RefineTargetLevels(nlevels)
    ELSE PyRange(0, nlevels, 1)

\* the level whose rows the box loop of level lev writes
WrittenLevel(pass, lev) == IF pass = "coarsen_multipoles" THEN lev - 1 ELSE lev

\* the level whose rows the kernel calls of level lev read
ReadLevel(pass, lev) == IF pass = "refine_locals" THEN lev - 1 ELSE lev

\* the box list a pass walks and its level starts
PassBoxes(tv, pass) ==
    IF pass = "coarsen_multipoles"
    THEN [ nrs |-> tv.level_start_source_parent_box_nrs, boxes |-> tv.source_parent_boxes ]
    ELSE [ nrs   |-> tv.level_start_target_or_target_parent_box_nrs,
           boxes |-> tv.target_or_target_parent_boxes ]

\* the interaction lists a pass walks
PassLists(tv, pass) ==
    IF pass = "multipole_to_local" THEN tv.from_sep_siblings ELSE tv.from_sep_bigger

\* the boxes the loop of level lev iterates over
LevelBoxes(tv, pass, lev) ==
    LET pb == PassBoxes(tv, pass)
        l  == WrittenLevel(pass, lev)
    IN  PySlice(pb.boxes, At(pb.nrs, l), At(pb.nrs, l + 1))

\* the entries of the interaction list of the box at position i of level lev
BoxList(tv, pass, lev, i) ==
    LET pb == PassBoxes(tv, pass)
        pl == PassLists(tv, pass)
        k  == At(pb.nrs, lev) + i
    IN  PySlice(pl.lists, At(pl.starts, k), At(pl.starts, k + 1))

Statement(kind, src) == [kind |-> kind, src |-> src]

RECURSIVE Flatten(_)
Flatten(ss) == IF ss = <<>> THEN <<>> ELSE Head(ss) \o Flatten(Tail(ss))

\* the statements one iteration of the box loop executes, in order
WorkerProgram(t, tv, pass, lev, i) ==
    LET box      == At(LevelBoxes(tv, pass, lev), i)
        children == At(t.box_child_ids, box)
        list     == BoxList(tv, pass, lev, i)
        update   == << Statement("load", -1), Statement("add", -1) >>
    IN  IF pass = "coarsen_multipoles"
        THEN Flatten([c \in 1..Len(children) |->
                 IF children[c] = 0 THEN <<>>
                 ELSE << Statement("call", children[c]) >> \o update])
        ELSE IF pass = "refine_locals"
        THEN << Statement("call", At(t.box_parent_ids, box)) >> \o update
        ELSE IF pass = "multipole_to_local"
        THEN << Statement("batch", -1) >> \o update
        ELSE Flatten([j \in 1..Len(list) |->
                 IF EmptyRange(_get_source_slice(t, list[j])) THEN <<>>
                 ELSE << Statement("form", list[j]) >>])
             \o << Statement("assign", -1) >>

\* the buffers as the driver holds them when a pass starts
BuffersBefore(w, tv, pass) ==
    LET src_weights == Ones(w.tree.nsources)
        formed    == form_multipoles(w, tv.level_start_source_box_nrs,
                         tv.source_boxes, src_weights, NoFail).buf
        coarsened == coarsen_multipoles(w, tv.level_start_source_parent_box_nrs,
                         tv.source_parent_boxes, formed, NoFail).buf
        from_mpoles == multipole_to_local(w,
                         tv.level_start_target_or_target_parent_box_nrs,
                         tv.target_or_target_parent_boxes,
                         tv.from_sep_siblings.starts, tv.from_sep_siblings.lists,
                         coarsened, NoFail).buf
        from_sources == form_locals(w,
                         tv.level_start_target_or_target_parent_box_nrs,
                         tv.target_or_target_parent_boxes,
                         tv.from_sep_bigger.starts, tv.from_sep_bigger.lists,
                         src_weights, NoFail).buf
    IN  IF pass = "coarsen_multipoles"
        THEN [ mpoles |-> formed, locals |-> local_expansion_zeros(w).val ]
        ELSE IF pass = "refine_locals"
        THEN [ mpoles |-> coarsened, locals |-> VecAdd(from_mpoles, from_sources) ]
        ELSE [ mpoles |-> coarsened, locals |-> local_expansion_zeros(w).val ]

\* the sequential body of level lev of a pass
LevelBody(w, tv, pass, mpoles, st, lev) ==
    LET pb == PassBoxes(tv, pass)
        pl == PassLists(tv, pass)
    IN  IF pass = "coarsen_multipoles"
        THEN CoarsenLevel(w, pb.nrs, pb.boxes, NoFail, st, lev)
        ELSE IF pass = "refine_locals"
        THEN RefineLevel(w, pb.nrs, pb.boxes, NoFail, st, lev)
        ELSE IF pass = "multipole_to_local"
        THEN MultipoleToLocalLevel(w, pb.nrs, pb.boxes, pl.starts, pl.lists,
                                   mpoles, NoFail, st, lev)
        ELSE FormLocalsLevel(w, pb.nrs, pb.boxes, pl.starts, pl.lists,
                             Ones(w.tree.nsources), NoFail, st, lev)

RECURSIVE LevelsBefore(_, _)
\* the levels a pass has finished when it enters level lev
LevelsBefore(levels, lev) ==
    IF levels = <<>> \/ Head(levels) = lev THEN <<>>
    ELSE << Head(levels) >> \o LevelsBefore(Tail(levels), lev)

\* the state of the sequential pass when it enters level lev, b being the
\* buffers the pass was started with
LevelStart(w, tv, pass, b, lev) ==
    FoldSeq(LAMBDA st, l : LevelBody(w, tv, pass, b.mpoles, st, l),
            PassStart(IF pass = "coarsen_multipoles" THEN b.mpoles ELSE b.locals),
            LevelsBefore(PassLevels(pass, w.tree.nlevels), lev))

\* the trees and particle patterns the workers run on
WorkerPatterns == {pp \in PassPatterns : pp[1][2] = 1 /\ pp[2][1] = 1}

InitWorkers ==
    /\ \E sh \in PassTreeShapes, pp \in WorkerPatterns, dims \in {2, 3} :
          /\ tree = MkTree(sh[1], sh[2], sh[3], dims, pp[1], pp[2])
          /\ trav = MkTraversal(tree, 1)
    /\ \E pol \in PassPolicies : wrangler = WranglerInit(tree, 0, <<pol>>, <<>>)
    /\ \E pass \in WorkerPasses :
         \E i \in 1..Len(PassLevels(pass, tree.nlevels)) :
            LET lev   == PassLevels(pass, tree.nlevels)[i]
                boxes == LevelBoxes(trav, pass, lev)
            IN  \E b \in {BuffersBefore(wrangler, trav, pass)} :
                \E start \in {LevelStart(wrangler, trav, pass, b, lev)} :
                \E seq \in {LevelBody(wrangler, trav, pass, b.mpoles, start, lev)} :
                    /\ seq.err = "none"
                    /\ mpole_exps =
                           IF pass = "coarsen_multipoles" THEN start.buf ELSE b.mpoles
                    /\ local_exps =
                           IF pass = "coarsen_multipoles" THEN b.locals ELSE start.buf
                    /\ ret = [fn |-> pass, err |-> "none", val |-> seq.buf, lev |-> lev]
                    /\ workers = [k \in 1..Len(boxes) |->
                           [ idx  |-> k - 1,
                             box  |-> boxes[k],
                             prog |-> WorkerProgram(tree, trav, pass, lev, k - 1),
                             ip   |-> 1,
                             tmp  |-> <<0>>,
                             acc  |-> <<>>,
                             rd   |-> {},
                             wr   |-> {} ]]
    /\ pc = "running"
    /\ potentials = <<>>
    /\ trace = <<>>

\* the buffer the pass writes and the one its kernel calls read
WritesMpoles == ret.fn = "coarsen_multipoles"

ReadsLocals == ret.fn = "refine_locals"

WrittenName == IF WritesMpoles THEN "mpole" ELSE "local"

ReadName == IF ReadsLocals THEN "local" ELSE "mpole"

WrittenBuf == IF WritesMpoles THEN mpole_exps ELSE local_exps

ReadBuf == IF ReadsLocals THEN local_exps ELSE mpole_exps

WrittenView ==
    IF WritesMpoles
    THEN multipole_expansions_view(wrangler, mpole_exps, WrittenLevel(ret.fn, ret.lev)).val
    ELSE local_expansions_view(wrangler, local_exps, WrittenLevel(ret.fn, ret.lev)).val

ReadView ==
    IF ReadsLocals
    THEN local_expansions_view(wrangler, local_exps, ReadLevel(ret.fn, ret.lev)).val
    ELSE multipole_expansions_view(wrangler, mpole_exps, ReadLevel(ret.fn, ret.lev)).val

\* the coefficients of the flat buffer that view[row] covers
Region(name, view, row) ==
    { <<name, k>> : k \in (RowOffset(view, row) + 1)..(RowOffset(view, row) + view.row_size) }

\* worker i is about to execute a statement of the given kind
AtStatement(i, kind) ==
    /\ pc = "running"
    /\ workers[i].ip <= Len(workers[i].prog)
    /\ workers[i].prog[workers[i].ip].kind = kind

\* worker i has executed its statement
Stepped(i, tmp, acc, rd, wr) ==
    workers' = [workers EXCEPT ![i] =
                   [@ EXCEPT !.ip = @ + 1, !.tmp = tmp, !.acc = acc,
                             !.rd = @ \cup rd, !.wr = @ \cup wr]]

\* the written buffer gets a new value
Written(buf) ==
    IF WritesMpoles THEN mpole_exps' = buf /\ UNCHANGED local_exps
    ELSE local_exps' = buf /\ UNCHANGED mpole_exps

\* mpmp / locloc on the row of one source box
WorkerCall ==
    \E i \in 1..Len(workers) :
        /\ AtStatement(i, "call")
        /\ LET src == workers[i].prog[workers[i].ip].src
               row == src - ReadView.box_start
           IN  Stepped(i, Translate(wrangler, GetRow(ReadBuf, ReadView, row),
                              At(wrangler.level_nterms, WrittenLevel(ret.fn, ret.lev))),
                       workers[i].acc, Region(ReadName, ReadView, row), {})
        /\ UNCHANGED <<tree, trav, wrangler, pc, mpole_exps, local_exps, potentials,
                       trace, ret>>

\* the part of the batched mploc that computes the row of one target box
WorkerBatch ==
    \E i \in 1..Len(workers) :
        /\ AtStatement(i, "batch")
        /\ LET pb == PassBoxes(trav, ret.fn)
               pl == PassLists(trav, ret.fn)
               starts_on_lvl == PySlice(pl.starts, At(pb.nrs, ret.lev),
                                        At(pb.nrs, ret.lev + 1) + 1)
               list == BoxList(trav, ret.fn, ret.lev, workers[i].idx)
           IN  Stepped(i, MplocRow(wrangler, mpole_exps, ReadView, ret.lev,
                                   starts_on_lvl, pl.lists, workers[i].idx),
                       workers[i].acc,
                       UNION { Region(ReadName, ReadView, list[j] - ReadView.box_start) :
                                   j \in 1..Len(list) },
                       {})
        /\ UNCHANGED <<tree, trav, wrangler, pc, mpole_exps, local_exps, potentials,
                       trace, ret>>

\* formta on the sources of one source box, added to contrib
WorkerForm ==
    \E i \in 1..Len(workers) :
        /\ AtStatement(i, "form")
        /\ LET src_pslice == _get_source_slice(tree, workers[i].prog[workers[i].ip].src)
               charge == PySlice(Ones(tree.nsources), src_pslice.start, src_pslice.stop)
               mpole  == FormExpansion(wrangler, charge, At(wrangler.level_nterms, ret.lev))
           IN  Stepped(i, [k \in 1..Len(mpole) |-> Coeff(workers[i].tmp, k) + mpole[k]],
                       workers[i].acc, {}, {})
        /\ UNCHANGED <<tree, trav, wrangler, pc, mpole_exps, local_exps, potentials,
                       trace, ret>>

\* first half of `view[row] += v`: the row is read
WorkerLoad ==
    \E i \in 1..Len(workers) :
        /\ AtStatement(i, "load")
        /\ LET row == workers[i].box - WrittenView.box_start
           IN  Stepped(i, workers[i].tmp, GetRow(WrittenBuf, WrittenView, row),
                       Region(WrittenName, WrittenView, row), {})
        /\ UNCHANGED <<tree, trav, wrangler, pc, mpole_exps, local_exps, potentials,
                       trace, ret>>

\* second half of `view[row] += v`: the sum is written back
WorkerAdd ==
    \E i \in 1..Len(workers) :
        /\ AtStatement(i, "add")
        /\ LET row == workers[i].box - WrittenView.box_start
               sum == [k \in 1..WrittenView.row_size |->
                          workers[i].acc[k] + Coeff(workers[i].tmp, k)]
           IN  /\ Written(SetRow(WrittenBuf, WrittenView, row, sum))
               /\ Stepped(i, workers[i].tmp, workers[i].acc, {},
                          Region(WrittenName, WrittenView, row))
        /\ UNCHANGED <<tree, trav, wrangler, pc, potentials, trace, ret>>

\* `view[row] = contrib`
WorkerAssign ==
    \E i \in 1..Len(workers) :
        /\ AtStatement(i, "assign")
        /\ LET row == workers[i].box - WrittenView.box_start
           IN  /\ Written(StoreContrib(WrittenBuf, WrittenView, row, workers[i].tmp))
               /\ Stepped(i, workers[i].tmp, workers[i].acc, {},
                          Region(WrittenName, WrittenView, row))
        /\ UNCHANGED <<tree, trav, wrangler, pc, potentials, trace, ret>>

\* all workers of the level have finished
Join ==
    /\ pc = "running"
    /\ \A i \in 1..Len(workers) : workers[i].ip > Len(workers[i].prog)
    /\ pc' = "joined"
    /\ UNCHANGED <<workers, tree, trav, wrangler, mpole_exps, local_exps, potentials,
                   trace, ret>>

NextWorkers ==
    \/ WorkerCall
    \/ WorkerBatch
    \/ WorkerForm
    \/ WorkerLoad
    \/ WorkerAdd
    \/ WorkerAssign
    \/ Join

SpecWorkers == InitWorkers /\ [][NextWorkers]_vars

\* ---- C13: within-level independence ----

\* no two workers write the same coefficients
WritesDisjoint ==
    \A i, j \in 1..Len(workers) :
        i # j => workers[i].wr \cap workers[j].wr = {}

\* no worker reads coefficients another worker writes
ReadsUnwritten ==
    \A i, j \in 1..Len(workers) :
        i # j => workers[i].rd \cap workers[j].wr = {}

\* C13: when the per-box iterations of one level of coarsen_multipoles,
\* refine_locals, multipole_to_local or form_locals run as concurrent workers
\* in any interleaving, no two workers write the same box's expansion
\* region, no worker reads a region another worker writes, and the buffers
\* after the level equal those of the sequential loop.
C13_WithinLevelIndependence ==
    /\ WritesDisjoint
    /\ ReadsUnwritten
    /\ pc = "joined" => WrittenBuf = ret.val

C13_Witness ==
    /\ pc = "joined"
    /\ Len(workers) >= 2
    /\ \A i \in 1..Len(workers) : workers[i].wr # {}
    /\ \E i \in 1..Len(workers) : workers[i].rd \ workers[i].wr # {}
    /\ \E k \in 1..Len(WrittenBuf) : WrittenBuf[k] # 0


\* ------------------------------------------------------------------------
\* Specification SpecPermute: one accumulating pass is run on the inputs as
\* given and on the same inputs with the order of the children of every
\* parent, or of the entries of every box's interaction list, permuted.
\* ret.val is the result for the given order, ret.permuted the result for
\* the permuted order, ret.changed whether the permutation moved anything,
\* ret.weights the source strengths.
\* ------------------------------------------------------------------------

PermKinds == {"reverse", "rotate"}

Reverse(s) == [i \in 1..Len(s) |-> s[Len(s) + 1 - i]]

\* the first entry moved behind the others
Rotate(s) == IF s = <<>> THEN <<>> ELSE Tail(s) \o << Head(s) >>

Permuted(kind, s) == IF kind = "reverse" THEN Reverse(s) ELSE Rotate(s)

\* a CSR list with the entries of every box permuted
PermutedLists(kind, csr) ==
    [ starts |-> csr.starts,
      lists  |-> Concat([i \in 1..(Len(csr.starts) - 1) |->
                     Permuted(kind, PySlice(csr.lists, csr.starts[i], csr.starts[i + 1]))]) ]

\* a tree with the children of every box permuted
PermutedChildren(kind, t) ==
    [t EXCEPT !.box_child_ids =
        [b \in 1..Len(t.box_child_ids) |-> Permuted(kind, t.box_child_ids[b])]]

\* source strengths: all one, or 1, 2, 3, ...
WeightChoices(n) == { Ones(n), [i \in 1..n |-> i] }

\* the multipoles handed to coarsen_multipoles and to multipole_to_local
FormedMultipoles(w, tv, src_weights) ==
    form_multipoles(w, tv.level_start_source_box_nrs, tv.source_boxes,
                    src_weights, NoFail).buf

CoarsenedMultipoles(w, tv, src_weights) ==
    coarsen_multipoles(w, tv.level_start_source_parent_box_nrs,
                       tv.source_parent_boxes,
                       FormedMultipoles(w, tv, src_weights), NoFail).buf

Ref_FormedMultipoles(t, tv, src_weights) ==
    Ref_form_multipoles(t, tv.level_start_source_box_nrs, tv.source_boxes, src_weights)

Ref_CoarsenedMultipoles(t, tv, src_weights) ==
    Ref_coarsen_multipoles(t, tv.level_start_source_parent_box_nrs,
                           tv.source_parent_boxes,
                           Ref_FormedMultipoles(t, tv, src_weights))

\* lists handed to form_locals: the traversal's separated bigger boxes, and
\* (for lists of several entries per box) its separated siblings
FormLocalsLists(tv) == { tv.from_sep_bigger, tv.from_sep_siblings }

InitPermute ==
    /\ \E sh \in PassTreeShapes, pp \in PassPatterns :
          /\ tree = MkTree(sh[1], sh[2], sh[3], 2, pp[1], pp[2])
          /\ trav = MkTraversal(tree, 1)
    /\ \E k \in HelmholtzValues, pol \in PassPolicies :
          wrangler = WranglerInit(tree, k, <<pol>>, <<>>)
    /\ pc = "start"
    /\ mpole_exps = <<>>
    /\ local_exps = <<>>
    /\ potentials = <<>>
    /\ trace = <<>>
    /\ ret = NoRet
    /\ workers = <<>>

\* both runs have returned
Compared(fn, wts, given, permuted, changed) ==
    /\ pc' = "called"
    /\ ret' = [fn |-> fn, err |-> "none", val |-> given, permuted |-> permuted,
               changed |-> changed, weights |-> wts]
    /\ UNCHANGED <<workers, tree, trav, wrangler, mpole_exps, local_exps, potentials,
                   trace>>

PermuteCoarsen ==
    /\ pc = "start"
    /\ \E kind \in PermKinds, wts \in WeightChoices(tree.nsources) :
        LET w2 == [wrangler EXCEPT !.tree = PermutedChildren(kind, tree)]
            run(w) == coarsen_multipoles(w, trav.level_start_source_parent_box_nrs,
                          trav.source_parent_boxes,
                          FormedMultipoles(wrangler, trav, wts), NoFail)
        IN  \E given \in {run(wrangler)}, permuted \in {run(w2)} :
                /\ given.err = "none" /\ permuted.err = "none"
                /\ Compared("coarsen_multipoles", wts, given.buf, permuted.buf,
                            w2.tree # tree)

PermuteMultipoleToLocal ==
    /\ pc = "start"
    /\ \E kind \in PermKinds, wts \in WeightChoices(tree.nsources) :
        LET run(l) == multipole_to_local(wrangler,
                          trav.level_start_target_or_target_parent_box_nrs,
                          trav.target_or_target_parent_boxes, l.starts, l.lists,
                          CoarsenedMultipoles(wrangler, trav, wts), NoFail)
            l2 == PermutedLists(kind, trav.from_sep_siblings)
        IN  \E given \in {run(trav.from_sep_siblings)}, permuted \in {run(l2)} :
                /\ given.err = "none" /\ permuted.err = "none"
                /\ Compared("multipole_to_local", wts, given.buf, permuted.buf,
                            l2 # trav.from_sep_siblings)

PermuteFormLocals ==
    /\ pc = "start"
    /\ \E kind \in PermKinds, wts \in WeightChoices(tree.nsources),
          l1 \in FormLocalsLists(trav) :
        LET run(l) == form_locals(wrangler,
                          trav.level_start_target_or_target_parent_box_nrs,
                          trav.target_or_target_parent_boxes, l.starts, l.lists,
                          wts, NoFail)
            l2 == PermutedLists(kind, l1)
        IN  \E given \in {run(l1)}, permuted \in {run(l2)} :
                /\ given.err = "none" /\ permuted.err = "none"
                /\ Compared("form_locals", wts, given.buf, permuted.buf, l2 # l1)

PermuteEvalDirect ==
    /\ pc = "start"
    /\ \E kind \in PermKinds, wts \in WeightChoices(tree.nsources) :
        LET run(l) == eval_direct(wrangler, trav.target_boxes, l.starts, l.lists,
                                  wts, NoFail)
            l2 == PermutedLists(kind, trav.neighbor_source_boxes)
        IN  \E given \in {run(trav.neighbor_source_boxes)}, permuted \in {run(l2)} :
                /\ given.err = "none" /\ permuted.err = "none"
                /\ Compared("eval_direct", wts, given.buf, permuted.buf,
                            l2 # trav.neighbor_source_boxes)

RefPermuteCoarsen ==
    /\ pc = "start"
    /\ \E kind \in PermKinds, wts \in WeightChoices(tree.nsources) :
        LET run(t) == Ref_coarsen_multipoles(t, trav.level_start_source_parent_box_nrs,
                          trav.source_parent_boxes,
                          Ref_FormedMultipoles(tree, trav, wts))
            t2 == PermutedChildren(kind, tree)
        IN  Compared("ref_coarsen_multipoles", wts, run(tree), run(t2), t2 # tree)

RefPermuteMultipoleToLocal ==
    /\ pc = "start"
    /\ \E kind \in PermKinds, wts \in WeightChoices(tree.nsources) :
        LET run(l) == Ref_multipole_to_local(tree,
                          trav.level_start_target_or_target_parent_box_nrs,
                          trav.target_or_target_parent_boxes, l.starts, l.lists,
                          Ref_CoarsenedMultipoles(tree, trav, wts))
            l2 == PermutedLists(kind, trav.from_sep_siblings)
        IN  Compared("ref_multipole_to_local", wts, run(trav.from_sep_siblings), run(l2),
                     l2 # trav.from_sep_siblings)

RefPermuteFormLocals ==
    /\ pc = "start"
    /\ \E kind \in PermKinds, wts \in WeightChoices(tree.nsources),
          l1 \in FormLocalsLists(trav) :
        LET run(l) == Ref_form_locals(tree,
                          trav.level_start_target_or_target_parent_box_nrs,
                          trav.target_or_target_parent_boxes, l.starts, l.lists, wts)
            l2 == PermutedLists(kind, l1)
        IN  Compared("ref_form_locals", wts, run(l1), run(l2), l2 # l1)

RefPermuteEvalDirect ==
    /\ pc = "start"
    /\ \E kind \in PermKinds, wts \in WeightChoices(tree.nsources) :
        LET run(l) == Ref_eval_direct(tree, trav.target_boxes, l.starts, l.lists, wts)
            l2 == PermutedLists(kind, trav.neighbor_source_boxes)
        IN  Compared("ref_eval_direct", wts, run(trav.neighbor_source_boxes), run(l2),
                     l2 # trav.neighbor_source_boxes)

NextPermute ==
    \/ PermuteCoarsen
    \/ PermuteMultipoleToLocal
    \/ PermuteFormLocals
    \/ PermuteEvalDirect
    \/ RefPermuteCoarsen
    \/ RefPermuteMultipoleToLocal
    \/ RefPermuteFormLocals
    \/ RefPermuteEvalDirect

SpecPermute == InitPermute /\ [][NextPermute]_vars

\* ---- C14: accumulation commutativity ----

\* C14: with exact (integer) coefficient arithmetic, permuting the order of
\* the children of a parent in coarsen_multipoles, or the order of the
\* entries inside one box's interaction list in multipole_to_local,
\* form_locals or eval_direct, leaves every resulting expansion and every
\* potential unchanged.
C14_AccumulationCommutes ==
    pc = "called" => ret.permuted = ret.val

C14_Witness ==
    /\ pc = "called"
    /\ ret.fn = "coarsen_multipoles"
    /\ ret.changed
    /\ tree.nlevels >= 4
    /\ \E p \in 0..(tree.nboxes - 1) :
          /\ At(tree.box_levels, p) = 2
          /\ \A c \in 1..2 : At(tree.box_child_ids, p)[c] # 0
          /\ ReturnedRow(At(tree.box_child_ids, p)[1])
                 # ReturnedRow(At(tree.box_child_ids, p)[2])
          /\ ReturnedRow(p)[1] # 0


\* ---- C15: evaluation passes ----

EvalPasses == {"eval_locals", "eval_multipoles", "eval_direct"}

\* the leading coefficient of every box's row of an expansion buffer
LeadingMultipoles ==
    [b \in 1..tree.nboxes |->
        LET v == multipole_expansions_view(wrangler, mpole_exps,
                                           At(tree.box_levels, b - 1)).val
        IN  GetRow(mpole_exps, v, b - 1 - v.box_start)[1]]

LeadingLocals ==
    [b \in 1..tree.nboxes |->
        LET v == local_expansions_view(wrangler, local_exps,
                                       At(tree.box_levels, b - 1)).val
        IN  GetRow(local_exps, v, b - 1 - v.box_start)[1]]

\* what the pass that ran last adds up for every target, counted from zero
ContributionsFromZero ==
    IF ret.fn = "eval_locals"
    THEN Ref_eval_locals(tree, trav.level_start_target_box_nrs, trav.target_boxes,
                         LeadingLocals)
    ELSE IF ret.fn = "eval_multipoles"
    THEN Ref_eval_multipoles(tree, trav.target_boxes_sep_smaller_by_source_level,
                             trav.from_sep_smaller_by_level, LeadingMultipoles)
    ELSE Ref_eval_direct(tree, trav.target_boxes, trav.neighbor_source_boxes.starts,
                         trav.neighbor_source_boxes.lists, Ones(tree.nsources))

\* no event of the last pass stores into an expansion row
NoExpansionWritten ==
    \A i \in 1..Len(trace) : trace[i].wr = {} /\ trace[i].kind # "store"

\* C15: eval_locals, eval_multipoles and eval_direct leave the multipole and
\* local expansion buffers passed to them unchanged, and each returns a
\* freshly allocated output that was all zero at the start of the pass: what
\* it returns is the sum of this pass's contributions only, not added onto
\* the output of an earlier pass.
C15_EvalReadOnlyFreshOutput ==
    /\ [][ret'.fn \in EvalPasses /\ ret' # ret =>
              mpole_exps' = mpole_exps /\ local_exps' = local_exps]_vars
    /\ [](ret.fn \in EvalPasses =>
              /\ NoExpansionWritten
              /\ ret.err = "none" =>
                    /\ Len(ret.val) = tree.ntargets
                    /\ ret.val = ContributionsFromZero)

C15_Witness ==
    /\ LastPass("eval_locals")
    /\ ret.err = "none"
    /\ \E k \in 1..Len(ret.val) : ret.val[k] # 0
    /\ \E k \in 1..Len(potentials) : potentials[k] # ret.val[k]
    /\ \E i \in KernelCalls : trace[i].rd # {}


\* ---- C16: box addressing ----

\* the view of a level of a zero buffer, of the kind the last call asked for
LevelView(lev) ==
    IF ret.fn = "multipole_expansions_view"
    THEN multipole_expansions_view(wrangler, multipole_expansion_zeros(wrangler).val, lev)
    ELSE local_expansions_view(wrangler, local_expansion_zeros(wrangler).val, lev)

\* the levels whose box range contains box b
LevelsHolding(b) ==
    {lev \in 0..(tree.nlevels - 1) :
        At(tree.level_start_box_nrs, lev) <= b /\ b < At(tree.level_start_box_nrs, lev + 1)}

\* the flat-buffer positions of the coefficients of box b, found through the
\* view of level lev
BoxCoefficients(b, lev) ==
    LET v == LevelView(lev).val
        o == RowOffset(v, b - v.box_start)
    IN  (o + 1)..(o + v.row_size)

\* C16: every box b with level_start_box_nrs[L] <= b < level_start_box_nrs[L+1]
\* is addressed through exactly one level, L, at row b - level_start_box_nrs[L]
\* of that level's view; the view has (boxes at L) rows of
\* expansion_shape(level_nterms[L]) coefficients; the flat-buffer coefficient
\* ranges of two distinct boxes never overlap.
C16_BoxAddressingInjective ==
    (IsViewCall /\ ret.err = "none" /\ ret.arg \in 0..(tree.nlevels - 1)) =>
        /\ ret.val.box_start = At(tree.level_start_box_nrs, ret.arg)
        /\ ret.val.nrows = At(tree.level_start_box_nrs, ret.arg + 1)
                               - At(tree.level_start_box_nrs, ret.arg)
        /\ ret.val.nrows = BoxesAtLevel(tree, ret.arg)
        /\ ret.val.row_shape
               = expansion_shape(wrangler, At(wrangler.level_nterms, ret.arg)).val
        /\ ret.val.row_size = product(ret.val.row_shape)
        /\ ret.val.row_size >= 1
        /\ ret.val.expn_stop - ret.val.expn_start = ret.val.nrows * ret.val.row_size
        /\ \A b \in 0..(tree.nboxes - 1) :
              LevelsHolding(b) = {At(tree.box_levels, b)}
        /\ \A views \in {[lev \in 0..(tree.nlevels - 1) |-> LevelView(lev).val]} :
           \A coeffs \in {[b \in 0..(tree.nboxes - 1) |->
                              BoxCoefficients(b, At(tree.box_levels, b))]} :
              /\ \A b \in 0..(tree.nboxes - 1) :
                    LET v == views[At(tree.box_levels, b)]
                    IN  /\ RowOk(v, b - v.box_start)
                        /\ b - v.box_start >= 0
                        /\ coeffs[b] \subseteq (v.expn_start + 1)..v.expn_stop
              /\ \A b1, b2 \in 0..(tree.nboxes - 1) :
                    b1 # b2 => coeffs[b1] \cap coeffs[b2] = {}

C16_Witness ==
    /\ IsViewCall
    /\ ret.err = "none"
    /\ ret.arg = 2
    /\ ret.val.nrows >= 2
    /\ ret.val.row_size >= 2
    /\ tree.nlevels >= 4
    /\ At(wrangler.level_nterms, 1) # At(wrangler.level_nterms, 2)


\* ---- C17: zero buffers ----

ZeroStartPasses == {"form_multipoles", "multipole_to_local", "form_locals"}

\* what the pass that ran last puts into each box's row, counted from zero
RowsFromZero ==
    IF ret.fn = "form_multipoles"
    THEN Ref_form_multipoles(tree, trav.level_start_source_box_nrs, trav.source_boxes,
                             Ones(tree.nsources))
    ELSE IF ret.fn = "multipole_to_local"
    THEN Ref_multipole_to_local(tree, trav.level_start_target_or_target_parent_box_nrs,
                                trav.target_or_target_parent_boxes,
                                trav.from_sep_siblings.starts,
                                trav.from_sep_siblings.lists, LeadingMultipoles)
    ELSE Ref_form_locals(tree, trav.level_start_target_or_target_parent_box_nrs,
                         trav.target_or_target_parent_boxes,
                         trav.from_sep_bigger.starts, trav.from_sep_bigger.lists,
                         Ones(tree.nsources))

\* a buffer of the length of the last cumulative level offset, all zero
FreshZeros(z) ==
    /\ z.err = "none"
    /\ Len(z.val) = PyIndex(multipole_expansions_level_starts(wrangler).val, -1)
    /\ \A k \in 1..Len(z.val) : z.val[k] = 0

\* C17: multipole_expansion_zeros and local_expansion_zeros each return a
\* buffer whose length is the last cumulative level offset and whose every
\* entry is zero; form_multipoles, multipole_to_local and form_locals each
\* start from such a buffer, so what they return holds this pass's
\* contributions only and does not depend on any earlier call.
C17_ZeroBuffers ==
    (wrangler.raised = "none" /\ pc # "start") =>
        /\ FreshZeros(multipole_expansion_zeros(wrangler))
        /\ FreshZeros(local_expansion_zeros(wrangler))
        /\ (ret.fn \in ZeroStartPasses /\ ret.err = "none") =>
              /\ Len(ret.val) = Len(multipole_expansion_zeros(wrangler).val)
              /\ \A b \in 0..(tree.nboxes - 1) :
                    \A k \in 1..Len(ReturnedRow(b)) :
                        ReturnedRow(b)[k] = At(RowsFromZero, b)

C17_Witness ==
    /\ LastPass("form_locals")
    /\ ret.err = "none"
    /\ \E k \in 1..Len(ret.val) : ret.val[k] # 0
    /\ \E k \in 1..Len(ret.val) : local_exps[k] # ret.val[k]
    /\ \E b \in 0..(tree.nboxes - 1) : ReturnedRow(b)[1] = 0


\* ---- C18: element type of the expansion buffers ----

IsZerosCall == ret.fn \in {"multipole_expansion_zeros", "local_expansion_zeros"}

\* C18 as stated: the buffers the zeros functions return are complex-valued
\* for the Helmholtz kernel (helmholtz_k # 0) and real-valued for the
\* Laplace kernel (helmholtz_k = 0).
C18_DTypeFollowsKernel ==
    (IsZerosCall /\ ret.err = "none") =>
        BufferDType(wrangler) =
            IF wrangler.helmholtz_k # 0 THEN "complex128" ELSE "float64"

\* C18, amended: the buffers the zeros functions return are complex-valued
\* (complex128) for both kernels, Laplace included.
C18_DTypeAlwaysComplex ==
    (IsZerosCall /\ ret.err = "none") => BufferDType(wrangler) = "complex128"

C18_Witness ==
    /\ IsZerosCall
    /\ ret.err = "none"
    /\ wrangler.helmholtz_k = 0
    /\ wrangler.eqn_letter = "l"
    /\ Len(ret.val) >= 2


\* ---- C19: coarsening cutoff ----

\* the multipole coefficients of box b in buffer buf
MultipoleRow(buf, b) ==
    LET v == multipole_expansions_view(wrangler, buf, At(tree.box_levels, b)).val
    IN  GetRow(buf, v, b - v.box_start)

\* the rows of the boxes of the given levels are the same in both buffers
SameRowsAt(before, after, levels) ==
    /\ Len(before) = Len(after)
    /\ \A b \in 0..(tree.nboxes - 1) :
          At(tree.box_levels, b) \in levels =>
              MultipoleRow(before, b) = MultipoleRow(after, b)

\* the step is a coarsen_multipoles pass
CoarsenStep == pc = "form_multipoles" /\ ret'.fn = "coarsen_multipoles"

\* C19: coarsen_multipoles walks the source levels from nlevels-1 down to,
\* but not including, level 2 and writes only into parents at
\* target_level = source_level - 1; it never modifies the multipoles of boxes
\* at levels 0 and 1 nor those of the deepest level, and for a tree with
\* nlevels <= 3 it changes nothing.
C19_CoarseningCutoff ==
    [][CoarsenStep =>
          /\ \A i \in 1..Len(trace') :
                /\ trace'[i].rout = "mpmp"
                /\ trace'[i].lev \in 3..(tree.nlevels - 1)
                /\ \A b \in trace'[i].wr : At(tree.box_levels, b) = trace'[i].lev - 1
          /\ ret'.err = "none" =>
                \A lev \in 3..(tree.nlevels - 1) :
                    \A p \in 0..(tree.nboxes - 1) :
                        \A c \in 1..Len(At(tree.box_child_ids, p)) :
                            LET child == At(tree.box_child_ids, p)[c]
                            IN  (child # 0 /\ At(tree.box_levels, child) = lev) =>
                                    \E i \in 1..Len(trace') :
                                        /\ trace'[i].lev = lev
                                        /\ trace'[i].src = child
                                        /\ trace'[i].wr = {p}
          /\ SameRowsAt(mpole_exps, mpole_exps', {0, 1, tree.nlevels - 1})
          /\ tree.nlevels <= 3 => mpole_exps' = mpole_exps /\ trace' = <<>>
      ]_vars

C19_Witness ==
    /\ LastPass("coarsen_multipoles")
    /\ ret.err = "none"
    /\ tree.nlevels >= 5
    /\ \E i, j \in 1..Len(trace) : trace[i].lev = 4 /\ trace[j].lev = 3
    /\ \E b \in 0..(tree.nboxes - 1) :
          At(tree.box_levels, b) = 1 /\ ~IsLeaf(tree, b) /\ MultipoleRow(mpole_exps, b)[1] = 0
    /\ \E b \in 0..(tree.nboxes - 1) :
          At(tree.box_levels, b) = 2 /\ MultipoleRow(mpole_exps, b)[1] >= 2


\* ---- C20: coarsening result ----

ListedParents ==
    {trav.source_parent_boxes[i] : i \in 1..Len(trav.source_parent_boxes)}

\* the sum over the children of p that are present (id # 0) of the
\* translation of their rows in buffer buf to p's level
TranslatedChildren(buf, p) ==
    FoldSeq(LAMBDA acc, child :
                IF child = 0 THEN acc
                ELSE VecAdd(acc, Translate(wrangler, MultipoleRow(buf, child),
                                     At(wrangler.level_nterms, At(tree.box_levels, p)))),
            Fill(Len(MultipoleRow(buf, p)), 0), At(tree.box_child_ids, p))

\* the same for the constant-one wrangler, whose translation is the identity
Ref_TranslatedChildren(mpoles, p) ==
    FoldSeq(LAMBDA acc, child : IF child = 0 THEN acc ELSE acc + At(mpoles, child),
            0, At(tree.box_child_ids, p))

\* the total strength of the sources in the subtree of p
SubtreeWeight(p, src_weights) ==
    SumOver(LAMBDA b : SliceSum(src_weights, _get_source_slice(tree, b)),
            Subtree(tree, p))

\* C20: after coarsen_multipoles, for every listed parent box p at a level
\* >= 2, multipole(p) is multipole(p) before the pass plus the sum over p's
\* children that are present (id # 0) of the translation of the final
\* multipole of the child; with the constant-one wrangler and every parent
\* listed, multipole(p) is then the total source weight in p's subtree.  An
\* absent child (id 0) contributes nothing.
C20_CoarseningResult ==
    /\ (pc = "called" /\ ret.fn = "coarsen_multipoles") =>
          \A p \in ListedParents :
              At(tree.box_levels, p) >= 2 =>
                  MultipoleRow(ret.val, p) =
                      VecAdd(MultipoleRow(FormedMultipoles(wrangler, trav, ret.weights), p),
                             TranslatedChildren(ret.val, p))
    /\ (pc = "called" /\ ret.fn = "ref_coarsen_multipoles") =>
          \A p \in ListedParents :
              At(tree.box_levels, p) >= 2 =>
                  /\ At(ret.val, p) =
                         At(Ref_FormedMultipoles(tree, trav, ret.weights), p)
                             + Ref_TranslatedChildren(ret.val, p)
                  /\ At(ret.val, p) = SubtreeWeight(p, ret.weights)

\* the constant-one wrangler on a five-level tree with strengths 1, 2, 3, ...:
\* a level-2 parent with an absent child whose other child is a parent too
C20_Witness ==
    /\ pc = "called"
    /\ ret.fn = "ref_coarsen_multipoles"
    /\ ret.weights # Ones(tree.nsources)
    /\ tree.nlevels >= 5
    /\ \E p \in ListedParents :
          /\ At(tree.box_levels, p) = 2
          /\ \E c \in Children(tree, p) : c \in ListedParents /\ At(ret.val, c) >= 1
          /\ At(ret.val, p) >= 3
    /\ \E p \in ListedParents :
          At(tree.box_levels, p) >= 2 /\ Cardinality(Children(tree, p)) = 1


\* ------------------------------------------------------------------------
\* Specification SpecPair: the driver runs an FMMLibExpansionWrangler and a
\* ConstantOneExpansionWrangler side by side through the passes, on the same
\* tree, traversal and source strengths.  mpole_exps, local_exps, potentials
\* and trace belong to the FMMLib wrangler; ret.val is what its last pass
\* returned, ret.before the buffer that pass was handed to work on in place
\* and ret.lists the interaction lists it was handed; ret.ref holds the same
\* for the constant-one wrangler, with its buffers.  No kernel call fails.
\* ------------------------------------------------------------------------

\* boxes with particles of their own, given the per-box counts
WithOwn(t, counts) == {b \in 0..(t.nboxes - 1) : At(counts, b) > 0}

\* boxes with particles in their subtree
WithAny(t, counts) ==
    {b \in 0..(t.nboxes - 1) : Subtree(t, b) \cap WithOwn(t, counts) # {}}

\* the list of box b in a CSR structure laid out along `boxes`
ListOf(csr, boxes, b) ==
    Concat([i \in 1..Len(boxes) |->
               IF boxes[i] = b THEN PySlice(csr.lists, csr.starts[i], csr.starts[i + 1])
               ELSE <<>>])

\* the CSR structure laid out along the boxes of `keep` only
Restrict(csr, boxes, keep) ==
    Csr([i \in 1..Len(keep) |-> ListOf(csr, boxes, keep[i])])

\* A traversal that lists a box only where it has work to do: source boxes
\* have sources, source parents have sources below them, target boxes have
\* targets, target-or-target-parent boxes have targets in their subtree.
ListedTraversal(t, away) ==
    LET base  == MkTraversal(t, away)
        srcs  == SortedSeq(WithOwn(t, t.box_source_counts_nonchild))
        spars == SortedSeq({b \in WithAny(t, t.box_source_counts_nonchild) : ~IsLeaf(t, b)})
        tgts  == SortedSeq(WithOwn(t, t.box_target_counts_nonchild))
        totp  == SortedSeq(WithAny(t, t.box_target_counts_nonchild))
    IN  [ well_sep_is_n_away |-> away,
          source_boxes |-> srcs,
          level_start_source_box_nrs |-> LevelStarts(t, srcs),
          source_parent_boxes |-> spars,
          level_start_source_parent_box_nrs |-> LevelStarts(t, spars),
          target_boxes |-> tgts,
          level_start_target_box_nrs |-> LevelStarts(t, tgts),
          target_or_target_parent_boxes |-> totp,
          level_start_target_or_target_parent_box_nrs |-> LevelStarts(t, totp),
          neighbor_source_boxes |->
              Restrict(base.neighbor_source_boxes, base.target_boxes, tgts),
          from_sep_siblings |->
              Restrict(base.from_sep_siblings, base.target_or_target_parent_boxes, totp),
          from_sep_smaller_by_level |->
              [l \in 1..t.nlevels |->
                  Restrict(base.from_sep_smaller_by_level[l], base.target_boxes, tgts)],
          target_boxes_sep_smaller_by_source_level |-> [l \in 1..t.nlevels |-> tgts],
          from_sep_bigger |->
              Restrict(base.from_sep_bigger, base.target_or_target_parent_boxes, totp) ]

\* the traversals handed to the passes: every box listed, or only the boxes
\* with work to do
PairTraversals(t) == { MkTraversal(t, 1), ListedTraversal(t, 1) }

\* the constant-one wrangler before its first pass
NoRef == [val |-> <<>>, before |-> <<>>, mpoles |-> <<>>, locals |-> <<>>,
          potentials |-> <<>>, err |-> "none"]

\* per-level orders: the same on all levels, or a higher one on the levels
\* below 3 as in test_pyfmmlib_fmm
PairPolicies ==
    { [lo |-> 1, hi |-> 1, cut |-> 2], [lo |-> 1, hi |-> MaxOrder, cut |-> 3] }

\* particle patterns: any for the sources, any with a target for the targets
PairPatterns == {pp \in Patterns \X Patterns : pp[2] # <<0, 0>>}

InitPair ==
    /\ \E sh \in PassTreeShapes, pp \in PairPatterns, dims \in {2, 3} :
          /\ tree = MkTree(sh[1], sh[2], sh[3], dims, pp[1], pp[2])
          /\ trav \in PairTraversals(tree)
    /\ \E k \in HelmholtzValues, pol \in PairPolicies :
          wrangler = WranglerInit(tree, k, <<pol>>, <<>>)
    /\ pc = "start"
    /\ mpole_exps = <<>>
    /\ local_exps = <<>>
    /\ potentials = <<>>
    /\ trace = <<>>
    /\ \E wts \in WeightChoices(tree.nsources) :
          ret = [fn |-> "none", err |-> "none", val |-> <<>>, before |-> <<>>,
                 lists |-> <<>>, weights |-> wts, ref |-> NoRef]
    /\ workers = <<>>

\* both wranglers have done the pass: st is the FMMLib pass in its final
\* state, before the buffer and csr the lists it was handed (<<>>: none),
\* ref the constant-one wrangler after the pass
PairReturned(pass, st, before, csr, ref) ==
    /\ pc' = IF st.err = "none" THEN pass ELSE "aborted"
    /\ trace' = st.trace
    /\ ret' = [fn |-> pass, err |-> st.err,
               val |-> IF st.err = "none" THEN st.buf ELSE <<>>,
               before |-> before, lists |-> csr, weights |-> ret.weights,
               ref |-> ref]

PairFormMultipoles ==
    /\ Ready("start", "form_multipoles")
    /\ \E st \in {form_multipoles(wrangler, trav.level_start_source_box_nrs,
                      trav.source_boxes, ret.weights, NoFail)} :
       \E rv \in {Ref_form_multipoles(tree, trav.level_start_source_box_nrs,
                      trav.source_boxes, ret.weights)} :
          /\ PairReturned("form_multipoles", st, <<>>, <<>>,
                 [ret.ref EXCEPT !.val = rv, !.before = <<>>, !.mpoles = rv,
                                 !.potentials = Ref_potential_zeros(tree)])
          /\ mpole_exps' = Taken(st, st.buf, mpole_exps)
          /\ potentials' = Taken(st, output_zeros(wrangler), potentials)
    /\ UNCHANGED <<workers, tree, trav, wrangler, local_exps>>

PairCoarsenMultipoles ==
    /\ Ready("form_multipoles", "coarsen_multipoles")
    /\ \E st \in {coarsen_multipoles(wrangler, trav.level_start_source_parent_box_nrs,
                      trav.source_parent_boxes, mpole_exps, NoFail)} :
       \E rv \in {Ref_coarsen_multipoles(tree, trav.level_start_source_parent_box_nrs,
                      trav.source_parent_boxes, ret.ref.mpoles)} :
          /\ PairReturned("coarsen_multipoles", st, mpole_exps, <<>>,
                 [ret.ref EXCEPT !.val = rv, !.before = ret.ref.mpoles, !.mpoles = rv])
          /\ mpole_exps' = st.buf
    /\ UNCHANGED <<workers, tree, trav, wrangler, local_exps, potentials>>

PairMultipoleToLocal ==
    /\ Ready("coarsen_multipoles", "multipole_to_local")
    /\ \E st \in {multipole_to_local(wrangler,
                      trav.level_start_target_or_target_parent_box_nrs,
                      trav.target_or_target_parent_boxes,
                      trav.from_sep_siblings.starts, trav.from_sep_siblings.lists,
                      mpole_exps, NoFail)} :
       \E rv \in {Ref_multipole_to_local(tree,
                      trav.level_start_target_or_target_parent_box_nrs,
                      trav.target_or_target_parent_boxes,
                      trav.from_sep_siblings.starts, trav.from_sep_siblings.lists,
                      ret.ref.mpoles)} :
          /\ PairReturned("multipole_to_local", st, <<>>, trav.from_sep_siblings,
                 [ret.ref EXCEPT !.val = rv, !.before = <<>>, !.locals = rv])
          /\ local_exps' = Taken(st, st.buf, local_exps)
    /\ UNCHANGED <<workers, tree, trav, wrangler, mpole_exps, potentials>>

PairFormLocals ==
    /\ Ready("multipole_to_local", "form_locals")
    /\ \E csr \in FormLocalsLists(trav) :
       \E st \in {form_locals(wrangler,
                      trav.level_start_target_or_target_parent_box_nrs,
                      trav.target_or_target_parent_boxes, csr.starts, csr.lists,
                      ret.weights, NoFail)} :
       \E rv \in {Ref_form_locals(tree,
                      trav.level_start_target_or_target_parent_box_nrs,
                      trav.target_or_target_parent_boxes, csr.starts, csr.lists,
                      ret.weights)} :
          /\ PairReturned("form_locals", st, <<>>, csr,
                 [ret.ref EXCEPT !.val = rv, !.before = <<>>,
                                 !.locals = VecAdd(ret.ref.locals, rv)])
          /\ local_exps' = Taken(st, VecAdd(local_exps, st.buf), local_exps)
    /\ UNCHANGED <<workers, tree, trav, wrangler, mpole_exps, potentials>>

PairRefineLocals ==
    /\ Ready("form_locals", "refine_locals")
    /\ \E st \in {refine_locals(wrangler,
                      trav.level_start_target_or_target_parent_box_nrs,
                      trav.target_or_target_parent_boxes, local_exps, NoFail)} :
       \E rv \in {Ref_refine_locals(tree,
                      trav.level_start_target_or_target_parent_box_nrs,
                      trav.target_or_target_parent_boxes, ret.ref.locals)} :
          /\ PairReturned("refine_locals", st, local_exps, <<>>,
                 [ret.ref EXCEPT !.val = rv, !.before = ret.ref.locals, !.locals = rv])
          /\ local_exps' = st.buf
    /\ UNCHANGED <<workers, tree, trav, wrangler, mpole_exps, potentials>>

\* a call of FMMLibExpansionWrangler.eval_multipoles with the positional
\* arguments `given` before the expansions: the method names three
Call_eval_multipoles(w, given, mpoles, fail) ==
    IF Len(given) # 3 THEN Abort(PassStart(<<>>), "TypeError")
    ELSE eval_multipoles(w, given[1], given[2], given[3], mpoles, fail)

\* the same call of the reference wrangler, whose method names two
Ref_Call_eval_multipoles(t, given, mpoles) ==
    IF Len(given) # 2 THEN Raise("TypeError")
    ELSE Ok(Ref_eval_multipoles(t, given[1], given[2], mpoles))

\* the arguments each wrangler is called with: those of its own parameter
\* list, or one argument list for both
EvalMultipolesCalls(tv) ==
    LET own == <<tv.level_start_target_box_nrs, tv.target_boxes,
                 tv.from_sep_smaller_by_level>>
        ref == <<tv.target_boxes_sep_smaller_by_source_level,
                 tv.from_sep_smaller_by_level>>
    IN  { [fmm |-> own, ref |-> ref], [fmm |-> own, ref |-> own],
          [fmm |-> ref, ref |-> ref] }

PairEvalMultipoles ==
    /\ Ready("refine_locals", "eval_multipoles")
    /\ \E given \in EvalMultipolesCalls(trav) :
       \E st \in {Call_eval_multipoles(wrangler, given.fmm, mpole_exps, NoFail)} :
       \E rv \in {Ref_Call_eval_multipoles(tree, given.ref, ret.ref.mpoles)} :
          /\ pc' = IF st.err = "none" /\ rv.err = "none"
                   THEN "eval_multipoles" ELSE "aborted"
          /\ trace' = st.trace
          /\ ret' = [fn |-> "eval_multipoles", err |-> st.err,
                     val |-> IF st.err = "none" THEN st.buf ELSE <<>>,
                     before |-> <<>>, lists |-> given, weights |-> ret.weights,
                     ref |-> [ret.ref EXCEPT !.val = rv.val, !.before = <<>>,
                                 !.err = rv.err,
                                 !.potentials = IF rv.err = "none"
                                                THEN VecAdd(ret.ref.potentials, rv.val)
                                                ELSE ret.ref.potentials]]
          /\ potentials' = Taken(st, VecAdd(potentials, st.buf), potentials)
    /\ UNCHANGED <<workers, tree, trav, wrangler, mpole_exps, local_exps>>

PairEvalLocals ==
    /\ Ready("eval_multipoles", "eval_locals")
    /\ \E st \in {eval_locals(wrangler, trav.level_start_target_box_nrs,
                      trav.target_boxes, local_exps, NoFail)} :
       \E rv \in {Ref_eval_locals(tree, trav.level_start_target_box_nrs,
                      trav.target_boxes, ret.ref.locals)} :
          /\ PairReturned("eval_locals", st, <<>>, <<>>,
                 [ret.ref EXCEPT !.val = rv, !.before = <<>>,
                                 !.potentials = VecAdd(ret.ref.potentials, rv)])
          /\ potentials' = Taken(st, VecAdd(potentials, st.buf), potentials)
    /\ UNCHANGED <<workers, tree, trav, wrangler, mpole_exps, local_exps>>

\* the target boxes eval_direct is handed, with their neighbor lists: all
\* of the traversal's, or all but the first
DirectTargets(tv) ==
    { [ boxes  |-> keep,
        starts |-> Restrict(tv.neighbor_source_boxes, tv.target_boxes, keep).starts,
        lists  |-> Restrict(tv.neighbor_source_boxes, tv.target_boxes, keep).lists ] :
      keep \in {tv.target_boxes, PySlice(tv.target_boxes, 1, Len(tv.target_boxes))} }

PairEvalDirect ==
    /\ Ready("eval_locals", "eval_direct")
    /\ \E given \in DirectTargets(trav) :
       \E st \in {eval_direct(wrangler, given.boxes, given.starts, given.lists,
                      ret.weights, NoFail)} :
       \E rv \in {Ref_eval_direct(tree, given.boxes, given.starts, given.lists,
                      ret.weights)} :
          /\ PairReturned("eval_direct", st, <<>>, given,
                 [ret.ref EXCEPT !.val = rv, !.before = <<>>,
                                 !.potentials = VecAdd(ret.ref.potentials, rv)])
          /\ potentials' = Taken(st, VecAdd(potentials, st.buf), potentials)
    /\ UNCHANGED <<workers, tree, trav, wrangler, mpole_exps, local_exps>>

NextPair ==
    \/ PairFormMultipoles
    \/ PairCoarsenMultipoles
    \/ PairMultipoleToLocal
    \/ PairFormLocals
    \/ PairRefineLocals
    \/ PairEvalMultipoles
    \/ PairEvalLocals
    \/ PairEvalDirect

SpecPair == InitPair /\ [][NextPair]_vars


\* ---- C21: refinement result ----

\* the local coefficients of box b in buffer buf
LocalRow(buf, b) ==
    LET v == local_expansions_view(wrangler, buf, At(tree.box_levels, b)).val
    IN  GetRow(buf, v, b - v.box_start)

\* the boxes refine_locals is given
ListedTargetsOrParents ==
    {trav.target_or_target_parent_boxes[i] :
        i \in 1..Len(trav.target_or_target_parent_boxes)}

\* b and the boxes above it, up to the root
RECURSIVE AncestorsOrSelf(_)
AncestorsOrSelf(b) ==
    IF At(tree.box_levels, b) = 0 THEN {b}
    ELSE {b} \cup AncestorsOrSelf(At(tree.box_parent_ids, b))

\* refine_locals visits box b
Refined(b) == b \in ListedTargetsOrParents /\ At(tree.box_levels, b) >= 1

\* C21: after refine_locals, for every listed box b at a level from 1 to
\* nlevels-1, local(b) is local(b) before the pass plus the translation of
\* the final local(parent(b)); with the constant-one wrangler, for a box
\* listed together with all boxes above it, local(b) is the sum of the
\* pre-pass locals of b and all its ancestors.  Level-0 locals and unlisted
\* boxes are unchanged, and the buffer returned is the one passed in.
C21_RefinementResult ==
    (ret.fn = "refine_locals" /\ ret.err = "none") =>
        /\ ret.val = local_exps
        /\ Len(ret.val) = Len(ret.before)
        /\ ret.ref.val = ret.ref.locals
        /\ \A b \in 0..(tree.nboxes - 1) :
              LET parent == At(tree.box_parent_ids, b)
              IN  IF Refined(b)
                  THEN /\ LocalRow(ret.val, b) =
                              VecAdd(LocalRow(ret.before, b),
                                     Translate(wrangler, LocalRow(ret.val, parent),
                                         At(wrangler.level_nterms, At(tree.box_levels, b))))
                       /\ At(ret.ref.val, b) =
                              At(ret.ref.before, b) + At(ret.ref.val, parent)
                       /\ (AncestorsOrSelf(b) \ {0} \subseteq ListedTargetsOrParents) =>
                              At(ret.ref.val, b) =
                                  SumOver(LAMBDA a : At(ret.ref.before, a),
                                          AncestorsOrSelf(b))
                  ELSE /\ LocalRow(ret.val, b) = LocalRow(ret.before, b)
                       /\ At(ret.ref.val, b) = At(ret.ref.before, b)

\* a listed box two levels down whose local takes in nonzero locals of its
\* parent and of its grandparent, in a tree with an unlisted box
C21_Witness ==
    /\ ret.fn = "refine_locals"
    /\ ret.err = "none"
    /\ \E u \in 0..(tree.nboxes - 1) :
          At(tree.box_levels, u) >= 1 /\ u \notin ListedTargetsOrParents
    /\ \E b \in ListedTargetsOrParents :
          LET parent == At(tree.box_parent_ids, b)
              grand  == At(tree.box_parent_ids, parent)
          IN  /\ At(tree.box_levels, b) >= 3
              /\ At(ret.ref.before, b) > 0
              /\ At(ret.ref.before, parent) > 0
              /\ At(ret.ref.before, grand) > 0
              /\ At(ret.ref.val, b) >=
                     At(ret.ref.before, b) + At(ret.ref.before, parent)
                         + At(ret.ref.before, grand)
              /\ LocalRow(ret.val, b)[1] = At(ret.ref.val, b)
    /\ \E b \in ListedTargetsOrParents :
          /\ At(tree.box_levels, b) >= 1
          /\ Len(LocalRow(ret.val, b))
                 # Len(LocalRow(ret.val, At(tree.box_parent_ids, b)))


\* ---- C22: multipole-to-local result ----

\* the batched calls the last pass made for level lev
BatchCalls(lev) ==
    {i \in 1..Len(trace) : trace[i].rout = "mploc" /\ trace[i].lev = lev}

\* the range of level lev in target_or_target_parent_boxes
TargetLevelRange(lev) ==
    PySlice(trav.level_start_target_or_target_parent_box_nrs, lev, lev + 2)

\* the entries of box b's list in a CSR structure laid out along
\* target_or_target_parent_boxes
ListAt(csr, b) == ListOf(csr, trav.target_or_target_parent_boxes, b)

\* the sum of the translations to b's level of the multipoles of the boxes
\* of `srcs`, each read at the level of b
TranslatedSources(b, srcs) ==
    LET lev == At(tree.box_levels, b)
        sv  == multipole_expansions_view(wrangler, mpole_exps, lev).val
    IN  FoldSeq(LAMBDA acc, src :
                    VecAdd(acc, Translate(wrangler, GetRow(mpole_exps, sv, src - sv.box_start),
                                          At(wrangler.level_nterms, lev))),
                Fill(NCoeffs(wrangler, At(wrangler.level_nterms, lev)), 0), srcs)

\* what multipole_to_local leaves in the local views
TranslatedIntoLocals ==
    (ret.fn = "multipole_to_local" /\ ret.err = "none") =>
        /\ \A i \in 1..Len(trace) :
              /\ trace[i].rout = "mploc"
              /\ trace[i].box = -1
              /\ trace[i].wr \subseteq ListedTargetsOrParents
        /\ \A b \in 0..(tree.nboxes - 1) :
              IF b \in ListedTargetsOrParents
              THEN /\ \A k \in 1..Len(ListAt(trav.from_sep_siblings, b)) :
                         At(tree.box_levels, ListAt(trav.from_sep_siblings, b)[k])
                             = At(tree.box_levels, b)
                   /\ LocalRow(ret.val, b) =
                          TranslatedSources(b, ListAt(trav.from_sep_siblings, b))
              ELSE \A k \in 1..Len(LocalRow(ret.val, b)) : LocalRow(ret.val, b)[k] = 0

\* multipole_to_local leaves the multipole buffer as it was
MultipolesKept ==
    [][(pc = "coarsen_multipoles" /\ ret'.fn = "multipole_to_local") =>
           mpole_exps' = mpole_exps]_vars

\* C22 as stated: multipole_to_local issues exactly one batched translation
\* call per level and, for the target box at global position i of
\* target_or_target_parent_boxes lying at level L, adds to that box's local
\* view the sum of the translations of the level-L multipoles of exactly the
\* boxes lists[starts[i] .. starts[i+1]-1]; every other local view stays
\* zero and the multipole buffer is unchanged.
C22_OneBatchPerLevel ==
    /\ MultipolesKept
    /\ [](TranslatedIntoLocals)
    /\ []((ret.fn = "multipole_to_local" /\ ret.err = "none") =>
              \A lev \in 0..(tree.nlevels - 1) : Cardinality(BatchCalls(lev)) = 1)

\* C22, amended: the same, with exactly one batched translation call for
\* every level that has a target box in target_or_target_parent_boxes and no
\* call for a level that has none.
C22_OneBatchPerListedLevel ==
    /\ MultipolesKept
    /\ [](TranslatedIntoLocals)
    /\ []((ret.fn = "multipole_to_local" /\ ret.err = "none") =>
              \A lev \in 0..(tree.nlevels - 1) :
                  Cardinality(BatchCalls(lev)) =
                      IF TargetLevelRange(lev)[1] = TargetLevelRange(lev)[2]
                      THEN 0 ELSE 1)

\* a level without target boxes next to a level whose batch translated two
\* different multipoles into one box and none into another
C22_Witness ==
    /\ ret.fn = "multipole_to_local"
    /\ ret.err = "none"
    /\ \E lev \in 0..(tree.nlevels - 1) :
          TargetLevelRange(lev)[1] = TargetLevelRange(lev)[2]
    /\ \E b \in ListedTargetsOrParents :
          LET srcs == ListAt(trav.from_sep_siblings, b)
          IN  /\ Len(srcs) >= 2
              /\ MultipoleRow(mpole_exps, srcs[1])[1] > 0
              /\ MultipoleRow(mpole_exps, srcs[2])[1] > MultipoleRow(mpole_exps, srcs[1])[1]
              /\ LocalRow(ret.val, b)[1] = At(ret.ref.val, b)
              /\ Len(LocalRow(ret.val, b)) >= 2
    /\ \E b \in ListedTargetsOrParents :
          /\ At(tree.box_levels, b) >= 2
          /\ ListAt(trav.from_sep_siblings, b) = <<>>


\* ---- C23: multipole formation result ----

\* the range of level lev in source_boxes
SourceLevelRange(lev) == PySlice(trav.level_start_source_box_nrs, lev, lev + 2)

\* the boxes source_boxes lists for level lev
SourcesListedAt(lev) ==
    LET listed == PySlice(trav.source_boxes, SourceLevelRange(lev)[1],
                          SourceLevelRange(lev)[2])
    IN  {listed[i] : i \in 1..Len(listed)}

\* the strengths of box b's own sources
OwnCharges(b) ==
    PySlice(ret.weights, _get_source_slice(tree, b).start, _get_source_slice(tree, b).stop)

\* the kernel calls the last pass made for box b
CallsFor(b) == {i \in KernelCalls : trace[i].box = b}

\* C23: after form_multipoles, the multipole view of a box b at level L is
\* the point-to-multipole result for b's own sources, computed with order
\* level_nterms[L] and the level-L length scale, if b is listed in
\* source_boxes for level L and has at least one source, and is all zero
\* otherwise; levels whose source-box range is empty are skipped entirely.
C23_FormationResult ==
    (ret.fn = "form_multipoles" /\ ret.err = "none") =>
        /\ \A b \in 0..(tree.nboxes - 1) :
              LET lev == At(tree.box_levels, b)
              IN  IF b \in SourcesListedAt(lev) /\ OwnCharges(b) # <<>>
                  THEN /\ MultipoleRow(ret.val, b) =
                              FormExpansion(wrangler, OwnCharges(b),
                                            At(wrangler.level_nterms, lev))
                       /\ Cardinality(CallsFor(b)) = 1
                       /\ \A i \in CallsFor(b) :
                              /\ trace[i].rout = "formmp"
                              /\ trace[i].lev = lev
                              /\ trace[i].src = b
                              /\ trace[i].n = Len(OwnCharges(b))
                              /\ trace[i].wr = {b}
                  ELSE /\ \A k \in 1..Len(MultipoleRow(ret.val, b)) :
                              MultipoleRow(ret.val, b)[k] = 0
                       /\ CallsFor(b) = {}
        /\ \A lev \in 0..(tree.nlevels - 1) :
              SourceLevelRange(lev)[1] = SourceLevelRange(lev)[2] =>
                  \A i \in 1..Len(trace) : trace[i].lev # lev
        /\ Len(trace) = Cardinality(KernelCalls)

\* two levels of different order with a source box each, a leaf without
\* sources that is listed and one that is not, and a level without source
\* boxes
C23_Witness ==
    /\ ret.fn = "form_multipoles"
    /\ ret.err = "none"
    /\ \E lev \in 0..(tree.nlevels - 1) : SourceLevelRange(lev)[1] = SourceLevelRange(lev)[2]
    /\ \E b1, b2 \in 0..(tree.nboxes - 1) :
          /\ b1 \in SourcesListedAt(At(tree.box_levels, b1))
          /\ b2 \in SourcesListedAt(At(tree.box_levels, b2))
          /\ MultipoleRow(ret.val, b1)[1] > 0
          /\ MultipoleRow(ret.val, b2)[1] > MultipoleRow(ret.val, b1)[1]
          /\ Len(MultipoleRow(ret.val, b1)) # Len(MultipoleRow(ret.val, b2))
    /\ \E b \in 0..(tree.nboxes - 1) :
          /\ IsLeaf(tree, b)
          /\ OwnCharges(b) = <<>>
          /\ b \in SourcesListedAt(At(tree.box_levels, b))


\* ---- C24: direct local formation ----

\* the entries of box b's list with at least one source
SourcesWithCharges(csr, b) ==
    SelectSeq(ListAt(csr, b), LAMBDA src : OwnCharges(src) # <<>>)

\* the sum of the point-to-local results for target box b of the boxes of
\* `srcs`
FormedLocals(b, srcs) ==
    LET nterms == At(wrangler.level_nterms, At(tree.box_levels, b))
    IN  FoldSeq(LAMBDA acc, src :
                    VecAdd(acc, FormExpansion(wrangler, OwnCharges(src), nterms)),
                Fill(NCoeffs(wrangler, nterms), 0), srcs)

\* C24: form_locals puts into each listed target box's local view the sum of
\* the point-to-local contributions of every source box with a non-empty
\* source range in that target box's list, one kernel call per such source
\* box: after the pass the view holds the sum of all contributions made to
\* that box during the pass, and a target box with an empty list keeps a
\* zero view.
C24_FormLocalsAccumulates ==
    (ret.fn = "form_locals" /\ ret.err = "none") =>
        \A b \in 0..(tree.nboxes - 1) :
            IF b \in ListedTargetsOrParents
            THEN LET srcs == SourcesWithCharges(ret.lists, b)
                 IN  /\ LocalRow(ret.val, b) = FormedLocals(b, srcs)
                     /\ LocalRow(ret.val, b)[1] = At(ret.ref.val, b)
                     /\ Cardinality(CallsFor(b)) = Len(srcs)
                     /\ \A k \in 1..Len(srcs) :
                            Cardinality({i \in CallsFor(b) : trace[i].src = srcs[k]})
                                = Cardinality({j \in 1..Len(srcs) : srcs[j] = srcs[k]})
                     /\ \A i \in CallsFor(b) :
                            /\ trace[i].rout = "formta"
                            /\ trace[i].lev = At(tree.box_levels, b)
                            /\ trace[i].n = Len(OwnCharges(trace[i].src))
                     /\ ListAt(ret.lists, b) = <<>> =>
                            \A k \in 1..Len(LocalRow(ret.val, b)) :
                                LocalRow(ret.val, b)[k] = 0
            ELSE /\ \A k \in 1..Len(LocalRow(ret.val, b)) : LocalRow(ret.val, b)[k] = 0
                 /\ CallsFor(b) = {}

\* a target box whose list holds two boxes with different source strengths,
\* one whose list holds a box with and a box without sources, and one with
\* an empty list
C24_Witness ==
    /\ ret.fn = "form_locals"
    /\ ret.err = "none"
    /\ \E b \in ListedTargetsOrParents :
          LET srcs == SourcesWithCharges(ret.lists, b)
          IN  /\ Len(srcs) >= 2
              /\ SeqSum(OwnCharges(srcs[1])) # SeqSum(OwnCharges(srcs[2]))
              /\ LocalRow(ret.val, b)[1]
                     = SeqSum(OwnCharges(srcs[1])) + SeqSum(OwnCharges(srcs[2]))
              /\ Len(LocalRow(ret.val, b)) >= 2
    /\ \E b \in ListedTargetsOrParents : ListAt(ret.lists, b) = <<>>
    /\ \E b \in ListedTargetsOrParents :
          /\ SourcesWithCharges(ret.lists, b) # <<>>
          /\ Len(ListAt(ret.lists, b)) > Len(SourcesWithCharges(ret.lists, b))


\* ---- C25: shapes of translated expansions ----

TranslationPasses == {"coarsen_multipoles", "refine_locals", "multipole_to_local"}

\* the coefficient shape of the views of the level of box b
ShapeAt(b) ==
    expansion_shape(wrangler, At(wrangler.level_nterms, At(tree.box_levels, b))).val

\* the row of box b in the buffer the last pass read its input from
InputRow(b) ==
    IF ret.fn = "coarsen_multipoles" THEN MultipoleRow(ret.val, b)
    ELSE IF ret.fn = "refine_locals" THEN LocalRow(ret.val, b)
    ELSE MultipoleRow(mpole_exps, b)

\* the row of box b in the buffer the last pass wrote
OutputRow(b) ==
    IF ret.fn = "coarsen_multipoles" THEN MultipoleRow(ret.val, b)
    ELSE LocalRow(ret.val, b)

\* the views of the buffer of the last pass, level by level
OutputView(lev) ==
    IF ret.fn = "coarsen_multipoles"
    THEN multipole_expansions_view(wrangler, ret.val, lev).val
    ELSE local_expansions_view(wrangler, ret.val, lev).val

\* C25: in coarsen_multipoles and refine_locals every translation is
\* requested at the order of the level being written and reads its input
\* with the source level's shape, and in multipole_to_local the result has
\* the shape of level_nterms[lev]; so for any per-level order table the
\* value added into a box's view has exactly that view's coefficient shape
\* and no pass stops on a shape mismatch.
C25_TranslatedShapes ==
    (ret.fn \in TranslationPasses) =>
        /\ ret.err = "none"
        /\ \A i \in KernelCalls :
              \A t \in trace[i].wr :
                  \A s \in trace[i].rd :
                      LET value == Translate(wrangler, InputRow(s),
                                       At(wrangler.level_nterms, At(tree.box_levels, t)))
                          view  == OutputView(At(tree.box_levels, t))
                      IN  /\ Len(InputRow(s)) = product(ShapeAt(s))
                          /\ Len(value) = product(ShapeAt(t))
                          /\ view.row_shape = ShapeAt(t)
                          /\ Len(value) = view.row_size
                          /\ Len(OutputRow(t)) = Len(value)
                          /\ At(tree.box_levels, s) =
                                 IF ret.fn = "coarsen_multipoles"
                                 THEN At(tree.box_levels, t) + 1
                                 ELSE IF ret.fn = "refine_locals"
                                 THEN At(tree.box_levels, t) - 1
                                 ELSE At(tree.box_levels, t)
                          /\ trace[i].lev =
                                 IF ret.fn = "coarsen_multipoles"
                                 THEN At(tree.box_levels, s)
                                 ELSE At(tree.box_levels, t)

\* a coarsening that translated a level-3 multipole into a level-2 row of
\* another shape and changed it
C25_Witness ==
    /\ ret.fn = "coarsen_multipoles"
    /\ ret.err = "none"
    /\ \E i \in KernelCalls :
          \E t \in trace[i].wr, s \in trace[i].rd :
              /\ At(tree.box_levels, s) = 3
              /\ ShapeAt(s) # ShapeAt(t)
              /\ product(ShapeAt(s)) >= 2
              /\ InputRow(s)[1] > 0
              /\ OutputRow(t) # MultipoleRow(ret.before, t)


\* ---- C26: direct evaluation result ----

\* the positions in the particle arrays of the targets of box b
TargetsOf(b) ==
    (_get_target_slice(tree, b).start + 1).._get_target_slice(tree, b).stop

\* the sum of the direct contributions, at ntargets targets, of the sources
\* of the boxes of `srcs`
DirectSum(srcs, ntargets) ==
    FoldSeq(LAMBDA acc, src : VecAdd(acc, DirectKernel(OwnCharges(src), ntargets)),
            Fill(ntargets, 0), srcs)

\* C26: after eval_direct, for the i-th target box with a non-empty target
\* range, every target in its slice holds the sum of the direct
\* contributions of the sources of exactly the boxes
\* neighbor_sources_lists[neighbor_sources_starts[i] ..
\* neighbor_sources_starts[i+1]-1], one kernel call per neighbor box with
\* sources; targets of boxes with no non-empty neighbor source box, and
\* targets of boxes not listed, hold zero.
C26_DirectResult ==
    (ret.fn = "eval_direct" /\ ret.err = "none") =>
        /\ Len(ret.val) = tree.ntargets
        /\ ret.val = ret.ref.val
        /\ \A b \in 0..(tree.nboxes - 1) :
              IF \E i \in 1..Len(ret.lists.boxes) : ret.lists.boxes[i] = b
              THEN LET srcs == SelectSeq(ListOf(ret.lists, ret.lists.boxes, b),
                                         LAMBDA src : OwnCharges(src) # <<>>)
                       pot  == DirectSum(srcs, Cardinality(TargetsOf(b)))
                   IN  /\ \A k \in TargetsOf(b) :
                              ret.val[k] = pot[k - _get_target_slice(tree, b).start]
                       /\ srcs = <<>> => \A k \in TargetsOf(b) : ret.val[k] = 0
                       /\ Cardinality(CallsFor(b)) =
                              IF TargetsOf(b) = {} THEN 0 ELSE Len(srcs)
                       /\ \A i \in CallsFor(b) :
                              /\ trace[i].rout = "direct"
                              /\ \E k \in 1..Len(srcs) : trace[i].src = srcs[k]
                              /\ trace[i].n = Len(OwnCharges(trace[i].src))
              ELSE /\ \A k \in TargetsOf(b) : ret.val[k] = 0
                   /\ CallsFor(b) = {}

\* a target box that sums two neighbor boxes of different strength, a
\* target box whose only neighbors have no sources, and a box with a target
\* that is not listed
C26_Witness ==
    /\ ret.fn = "eval_direct"
    /\ ret.err = "none"
    /\ \E b \in 0..(tree.nboxes - 1) :
          LET srcs == ListOf(ret.lists, ret.lists.boxes, b)
          IN  /\ TargetsOf(b) # {}
              /\ Len(srcs) >= 2
              /\ \E j, k \in 1..Len(srcs) :
                    /\ SeqSum(OwnCharges(srcs[j])) > 0
                    /\ SeqSum(OwnCharges(srcs[k])) > SeqSum(OwnCharges(srcs[j]))
                    /\ \A t \in TargetsOf(b) :
                          ret.val[t] >= SeqSum(OwnCharges(srcs[j]))
                                           + SeqSum(OwnCharges(srcs[k]))
    /\ \E b \in 0..(tree.nboxes - 1) :
          /\ TargetsOf(b) # {}
          /\ ListOf(ret.lists, ret.lists.boxes, b) # <<>>
          /\ \A t \in TargetsOf(b) : ret.val[t] = 0
    /\ \E b \in 0..(tree.nboxes - 1) :
          /\ TargetsOf(b) # {}
          /\ \A i \in 1..Len(ret.lists.boxes) : ret.lists.boxes[i] # b


\* ---- C27: multipole evaluation result, and the two wranglers' calls ----

\* the level-lev multipole of box src evaluated at one target
EvaluatedAt(src, lev) ==
    LET sv == multipole_expansions_view(wrangler, mpole_exps, lev).val
    IN  EvalExpansion(GetRow(mpole_exps, sv, src - sv.box_start), 1)[1]

\* the sum over the source levels of the evaluations of the multipoles in
\* each level's list entry for target box b
EvaluatedMultipoles(target_boxes, by_level, b) ==
    SeqSum([l \in 1..Len(by_level) |->
               SeqSum([k \in 1..Len(ListOf(by_level[l], target_boxes, b)) |->
                          EvaluatedAt(ListOf(by_level[l], target_boxes, b)[k], l - 1)])])

\* what the FMMLib wrangler's eval_multipoles returns
EvalMultipolesResult ==
    (ret.fn = "eval_multipoles" /\ ret.err = "none") =>
        LET target_boxes == ret.lists.fmm[2]
            by_level     == ret.lists.fmm[3]
        IN  /\ Len(ret.val) = tree.ntargets
            /\ \A b \in 0..(tree.nboxes - 1) :
                  IF \E i \in 1..Len(target_boxes) : target_boxes[i] = b
                  THEN /\ \A t \in TargetsOf(b) :
                              ret.val[t] = EvaluatedMultipoles(target_boxes, by_level, b)
                       /\ TargetsOf(b) # {} =>
                              \A l \in 1..Len(by_level) :
                                 LET srcs == ListOf(by_level[l], target_boxes, b)
                                 IN  /\ \A k \in 1..Len(srcs) :
                                           At(tree.box_levels, srcs[k]) = l - 1
                                     /\ Cardinality({i \in CallsFor(b) :
                                                        trace[i].lev = l - 1}) = Len(srcs)
                  ELSE /\ \A t \in TargetsOf(b) : ret.val[t] = 0
                       /\ CallsFor(b) = {}
            /\ \A i \in KernelCalls :
                  /\ trace[i].rout = "mpeval"
                  /\ trace[i].rd = {trace[i].src}
                  /\ At(tree.box_levels, trace[i].src) = trace[i].lev
                  /\ \E k \in 1..Len(ListOf(by_level[trace[i].lev + 1], target_boxes,
                                            trace[i].box)) :
                        ListOf(by_level[trace[i].lev + 1], target_boxes,
                               trace[i].box)[k] = trace[i].src

\* an argument list is accepted by both wranglers or by neither
SameArgumentsAccepted ==
    (ret.fn = "eval_multipoles" /\ Len(ret.lists.fmm) = Len(ret.lists.ref)) =>
        (ret.err = "none" <=> ret.ref.err = "none")

\* where both wranglers return, entry i of a level's list is paired with the
\* same target box by both, and the potentials are the same
SamePairing ==
    (ret.fn = "eval_multipoles" /\ ret.err = "none" /\ ret.ref.err = "none") =>
        /\ \A l \in 1..Len(ret.lists.ref[2]) :
              \A i \in 1..(Len(ret.lists.ref[2][l].starts) - 1) :
                 ret.lists.ref[2][l].starts[i] < ret.lists.ref[2][l].starts[i + 1] =>
                    ret.lists.ref[1][l][i] = ret.lists.fmm[2][i]
        /\ ret.lists.ref[2] = ret.lists.fmm[3]
        /\ ret.val = ret.ref.val

\* C27: eval_multipoles adds to the targets of each target box, for every
\* source level, the evaluation of the multipoles of exactly the boxes in
\* that level's separated-smaller list entry for that target box, each
\* multipole read from the region of its own source level; the FMMLib
\* wrangler and the constant-one reference wrangler accept the same
\* arguments and pair every list entry with the same target box.
C27_SameArgumentsSamePairing ==
    /\ EvalMultipolesResult
    /\ SameArgumentsAccepted
    /\ SamePairing


\* ---- C28: the per-level loops and the reference's flat loop ----

\* the passes of the FMMLib wrangler that walk a box list level by level
\* where the reference wrangler walks it as a whole
LevelLoopPasses == {"form_multipoles", "multipole_to_local", "form_locals", "eval_locals"}

\* the box list the last pass walked and its level_start array
WalkedList ==
    CASE ret.fn = "form_multipoles" ->
            [boxes |-> trav.source_boxes, level_start |-> trav.level_start_source_box_nrs]
      [] ret.fn = "eval_locals" ->
            [boxes |-> trav.target_boxes, level_start |-> trav.level_start_target_box_nrs]
      [] OTHER ->
            [boxes |-> trav.target_or_target_parent_boxes,
             level_start |-> trav.level_start_target_or_target_parent_box_nrs]

\* level_start[0] = 0, non-decreasing, ending at the length of the list
PartitionsList(level_start, boxes) ==
    /\ Len(level_start) = tree.nlevels + 1
    /\ level_start[1] = 0
    /\ \A l \in 1..tree.nlevels : level_start[l] <= level_start[l + 1]
    /\ level_start[Len(level_start)] = Len(boxes)

\* the steps of the last pass in which it handled box b: the kernel call
\* made for it, the batch that wrote it, the store into its row
VisitsOf(b) ==
    CASE ret.fn = "multipole_to_local" -> {i \in KernelCalls : b \in trace[i].wr}
      [] ret.fn = "form_locals" ->
            {i \in 1..Len(trace) : trace[i].kind = "store" /\ trace[i].box = b}
      [] OTHER -> CallsFor(b)

\* whether the pass has something to do for a listed box b
HasWork(b) ==
    CASE ret.fn = "form_multipoles" -> OwnCharges(b) # <<>>
      [] ret.fn = "eval_locals" -> TargetsOf(b) # {}
      [] OTHER -> TRUE

\* the multipole (local) row of box b in the buffer the last pass returned
WalkedRow(b) ==
    LET lev == At(tree.box_levels, b)
        v   == IF ret.fn = "form_multipoles"
               THEN multipole_expansions_view(wrangler, ret.val, lev).val
               ELSE local_expansions_view(wrangler, ret.val, lev).val
    IN  GetRow(ret.val, v, b - v.box_start)

\* C28: when a level_start array satisfies level_start[0] = 0, is
\* non-decreasing and ends at the length of its box list, the FMMLib
\* wrangler's per-level loops in form_multipoles, multipole_to_local,
\* form_locals and eval_locals visit every listed box exactly once and pair
\* it with the same CSR list entries as the reference wrangler's flat loop
\* over the whole box list; with a unit kernel substituted, both produce
\* the same expansions and potentials.
C28_LevelLoopsCoverFlatLoop ==
    ( /\ ret.fn \in LevelLoopPasses
      /\ ret.err = "none"
      /\ PartitionsList(WalkedList.level_start, WalkedList.boxes) ) =>
        /\ \A b \in 0..(tree.nboxes - 1) :
              Cardinality(VisitsOf(b)) =
                 IF (\E i \in 1..Len(WalkedList.boxes) : WalkedList.boxes[i] = b)
                        /\ HasWork(b)
                 THEN 1 ELSE 0
        /\ ret.fn = "form_locals" =>
              \A b \in 0..(tree.nboxes - 1) :
                 {trace[i].src : i \in CallsFor(b)}
                    = {src \in {ListAt(ret.lists, b)[k] :
                                    k \in 1..Len(ListAt(ret.lists, b))} :
                          OwnCharges(src) # <<>>}
        /\ ret.fn = "multipole_to_local" =>
              \A i \in KernelCalls :
                 trace[i].rd = UNION {{ListAt(ret.lists, b)[k] :
                                          k \in 1..Len(ListAt(ret.lists, b))} :
                                      b \in trace[i].wr}
        /\ IF ret.fn = "eval_locals"
           THEN ret.val = ret.ref.val
           ELSE \A b \in 0..(tree.nboxes - 1) :
                   \A k \in 1..Len(WalkedRow(b)) :
                      WalkedRow(b)[k] = At(ret.ref.val, b)

\* eval_locals has run through: the walked list leaves out a box, holds
\* boxes of at least three levels and an empty level, and two target boxes
\* received different nonzero potentials
C28_Witness ==
    /\ ret.fn = "eval_locals"
    /\ ret.err = "none"
    /\ PartitionsList(WalkedList.level_start, WalkedList.boxes)
    /\ Len(WalkedList.boxes) < tree.nboxes
    /\ Cardinality({At(tree.box_levels, WalkedList.boxes[i]) :
                       i \in 1..Len(WalkedList.boxes)}) >= 2
    /\ \E l \in 1..tree.nlevels :
          WalkedList.level_start[l] = WalkedList.level_start[l + 1]
    /\ \E s, t \in 1..Len(ret.val) : 0 < ret.val[s] /\ ret.val[s] < ret.val[t]

=============================================================================
